---- MODULE Spec2Model ----
(***************************************************************************)
(* Download orchestration of the bot: admission (per-actor counters,       *)
(* cooldowns, confirm-rate limiters), the pending-token store, the global  *)
(* download semaphore, the background sweeper and the administrative       *)
(* runtime operations; the video cache on disk; and download_video with    *)
(* its cache lookup, its attempts and its cookie refresh.                  *)
(*                                                                         *)
(* Every handler is an asyncio coroutine on one event loop: the code       *)
(* between two awaits that really suspend runs atomically, so each action  *)
(* of a handler is one such segment.  The file operations of the cache run *)
(* in worker threads (asyncio.to_thread), so each of them is a step of its *)
(* own that other calls of the cache can interleave with.                  *)
(*                                                                         *)
(* The three parts are explored one at a time: Spec and SpecUnattended     *)
(* (the handlers), SpecCache and SpecCacheSequential (the cache), and      *)
(* SpecAcquire (download_video over the cache).  The handlers are also     *)
(* explored under a part of their inputs: SpecGranted (requests that are   *)
(* let through, with the resets), SpecTokens (the multi-party flow) and    *)
(* SpecInputs (every answer of the checks in front of the admission).      *)
(***************************************************************************)
EXTENDS Integers, Sequences, FiniteSets, TLC

(* ---------- bounds of the model ---------- *)
NumActors == 2
NumHandlers == 2
MaxTokens == 2
MaxTicks == 1
NumUrls == 2
NumCacheOps == 2
MaxStores == 3
MaxSamples == 3
MaxFailures == 2
MaxPending == 2
NumRecipients == 2
MaxAlertRows == 3

(* ---------- program constants ---------- *)
\* state.PENDING_TOKEN_TTL = 10 * 60
PENDING_TOKEN_TTL == 600
\* config values, each an environment override inside the range _int_setting allows
USER_COOLDOWN_SECONDS == 1
MAX_CONCURRENT_PER_USER == 1
CALLBACK_CHAT_COOLDOWN_SECONDS == 1
CALLBACK_GLOBAL_MAX_CALLS == 1
CALLBACK_GLOBAL_WINDOW_SECONDS == 5
DOWNLOAD_STUCK_TIMEOUT_SECONDS == 30
USER_STATE_TTL_SECONDS == 60
MAX_GLOBAL_CONCURRENT_DOWNLOADS == 1
\* CacheConfig of the VideoCache instance
ttl_seconds == 60
max_items == 1
\* download_video: attempts = 2
attempts == 2
\* config values of the health monitor, inside the ranges _int_setting allows
ALERT_ERROR_SPIKE_THRESHOLD == 2
ALERT_PENDING_THRESHOLD == 2
ALERT_NOTIFY_COOLDOWN_MINUTES == 1

Actors == 1..NumActors
Handlers == 1..NumHandlers
\* the one group chat: a Telegram chat id distinct from every user id
Groups == {NumActors + 1}
\* the number of codes in IG_2FA_BACKUP_CODES
NumBackupCodes == 4
\* how often time.time() moves on in the runs of the sweeper
MaxSweepTicks == 2
\* how far it moves between two iterations of _cleanup_loop: within every
\* timeout, past the stuck timeout, past the state TTL, past the token TTL
SweepSteps == {1, DOWNLOAD_STUCK_TIMEOUT_SECONDS + 1, USER_STATE_TTL_SECONDS + 1,
               PENDING_TOKEN_TTL + 1}
\* how far time.time() may move between two steps of the event loop
TimeSteps == {1, PENDING_TOKEN_TTL + 1}
\* what a request's URL can be for ensure_safe_public_url and detect_platform
UrlKinds == {"ok", "unsafe", "unsupported"}
\* the source URLs given to the video cache, and the coroutines calling it
Urls == 1..NumUrls
CacheOps == 1..NumCacheOps
\* the values of ALERT_MONITOR_INTERVAL_SECONDS and ALERT_STUCK_ACTIVE_MINUTES
\* the monitor is started with
IntervalSettings == {20, 60}
StuckMinutesSettings == {1, 2}
\* ADMIN_ALERT_CHAT_ID and ADMIN_USER_IDS
Recipients == 1..NumRecipients
\* the alert codes callers pass, one of them not yet normalized
AlertCodes == {"errors.spike", "queue.stuck", " Errors.Spike "}

VARIABLES
    clock,                   \* time.time()
    ticks,                   \* number of clock advances so far
    user_last_request_ts,    \* state.user_last_request_ts
    user_active_downloads,   \* state.user_active_downloads
    chat_last_callback_ts,   \* state.chat_last_callback_ts
    global_callback_events,  \* state.global_callback_events
    pending_downloads,       \* state.pending_downloads
    semaphore_value,         \* global_download_semaphore._value
    jobs,                    \* the handler coroutines and their local variables
    minted,                  \* number of tokens issued so far (uuid4 never repeats)
    redeemed,                \* history: per token, confirms that got past the lookup
    rate_passes,             \* history: times at which the global rate check passed
    reply,                   \* what the handler that returned in the last step answered
    cache_entries,           \* the entry directories under VideoCache._dir, per URL
    cache_lock,              \* VideoCache._lock: the coroutine holding it, or 0
    cache_ops,               \* the coroutines inside fetch / store and their locals
    cache_stores,            \* number of store calls so far (names the artifacts)
    cache_last_store,        \* history: the store whose return was the last return of
                             \* a call, while no store has begun since
    download_call,           \* the running call of download_video and its locals
    once,                    \* the running call of _download_once: its locals, its
                             \* working directory and the tools it has invoked
    health_alerts,           \* the rows of the table health_alerts, by id
    wall_clock,              \* datetime.now(tz=UTC), in seconds
    monitor,                 \* health_monitor.monitor_loop and its locals
    outbox,                  \* history: the calls of bot.send_message by the monitor
    sweeper,                 \* maintenance._cleanup_loop
    admin,                   \* the call of RuntimeController in the panel's thread
    refresher                \* InstagramCookieRefresher and its running refresh

\* the state of the handlers
core_vars == <<clock, ticks, user_last_request_ts, user_active_downloads,
               chat_last_callback_ts, global_callback_events, pending_downloads,
               semaphore_value, jobs, minted, redeemed, rate_passes,
               reply>>
\* the state of the video cache
cache_vars == <<cache_entries, cache_lock, cache_ops, cache_stores, cache_last_store>>

\* the state of the alert store, the health monitor and the sweeper loop
health_vars == <<health_alerts, wall_clock, monitor, outbox, sweeper>>

\* what the handlers' steps leave alone
beside_core == <<cache_vars, download_call, once, health_vars, admin, refresher>>
\* what the steps of the video cache and of download_video leave alone
beside_cache == <<core_vars, once, health_vars, admin, refresher>>
\* what the steps of _download_once leave alone
beside_once == <<core_vars, cache_vars, download_call, health_vars, admin,
                refresher>>
\* what the steps of the alert store and of the background loops leave alone
beside_health == <<core_vars, cache_vars, download_call, once, admin, refresher>>
\* what the steps of the panel's bridge leave alone, the handlers' state aside
beside_admin == <<cache_vars, download_call, once, health_vars, refresher>>
\* what the steps of the cookie refresher leave alone
beside_refresher == <<core_vars, cache_vars, download_call, once, health_vars, admin>>

vars == <<core_vars, cache_vars, download_call, once, health_vars, admin, refresher>>

(* ---------- dictionaries ---------- *)
EmptyDict == [k \in {} |-> 0]
Get(d, k, default) == IF k \in DOMAIN d THEN d[k] ELSE default
Put(d, k, v) == [x \in (DOMAIN d) \cup {k} |-> IF x = k THEN v ELSE d[x]]
Pop(d, k) == [x \in (DOMAIN d) \ {k} |-> d[x]]
Max(a, b) == IF a >= b THEN a ELSE b

(* ---------- handler coroutines ---------- *)
\* the answer of a handler that returns; NoReply when the step ends no handler
Ended(source, uid, result, token) ==
    [source |-> source, uid |-> uid, result |-> result, token |-> token]
NoReply == Ended("none", 0, "none", 0)
\* a handler slot and the local variables of the coroutine running in it
IdleJob == [pc |-> "idle", uid |-> 0, active |-> 0, now |-> 0, acquired |-> FALSE]
\* a new coroutine takes the first free slot (slots are interchangeable)
Startable(j) ==
    /\ reply = NoReply
    /\ jobs[j].pc = "idle"
    /\ \A i \in 1..(j - 1) : jobs[i].pc # "idle"
ChatType(chat) == IF chat \in Groups THEN "group" ELSE "private"
\* context_source of _process_download_flow
ContextSource(chat) == IF ChatType(chat) = "group" THEN "group" ELSE "direct"

(* ---------- confirm-rate limiters (handlers/callbacks.py) ---------- *)
\* _consume_chat_rate_slot: the verdict and the timestamp map after the call
consume_chat_rate_slot(chat_id, now) ==
    LET cooldown == CALLBACK_CHAT_COOLDOWN_SECONDS
        last == Get(chat_last_callback_ts, chat_id, 0)
    IN  IF chat_id = 0 \/ cooldown <= 0
        THEN [ok |-> TRUE, ts |-> chat_last_callback_ts]
        ELSE IF last # 0 /\ now - last < cooldown
        THEN [ok |-> FALSE, ts |-> chat_last_callback_ts]
        ELSE [ok |-> TRUE, ts |-> Put(chat_last_callback_ts, chat_id, now)]

\* while events and now - events[0] > window: events.popleft()
RECURSIVE EvictOld(_, _)
EvictOld(events, now) ==
    IF events # <<>> /\ now - Head(events) > CALLBACK_GLOBAL_WINDOW_SECONDS
    THEN EvictOld(Tail(events), now)
    ELSE events

\* consume_global_rate_slot evicting the events that are older than now
consume_global_rate_slot_short_window(now) ==
    LET limit == CALLBACK_GLOBAL_MAX_CALLS
        window == CALLBACK_GLOBAL_WINDOW_SECONDS
        events == SelectSeq(global_callback_events, LAMBDA e : ~(now - e > 0))
    IN  IF limit <= 0 \/ window <= 0
        THEN [ok |-> TRUE, events |-> global_callback_events, counted |-> FALSE]
        ELSE IF Len(events) >= limit
        THEN [ok |-> FALSE, events |-> events, counted |-> FALSE]
        ELSE [ok |-> TRUE, events |-> Append(events, now), counted |-> TRUE]

\* _consume_global_rate_slot: the verdict and the event window after the call
consume_global_rate_slot(now) ==
    LET limit == CALLBACK_GLOBAL_MAX_CALLS
        window == CALLBACK_GLOBAL_WINDOW_SECONDS
        events == EvictOld(global_callback_events, now)
    IN  IF limit <= 0 \/ window <= 0
        THEN [ok |-> TRUE, events |-> global_callback_events, counted |-> FALSE]
        ELSE IF Len(events) >= limit
        THEN [ok |-> FALSE, events |-> events, counted |-> FALSE]
        ELSE [ok |-> TRUE, events |-> Append(events, now), counted |-> TRUE]

\* active >= max_per_user
AtActiveLimit(active) == active >= MAX_CONCURRENT_PER_USER

\* cooldown and last_ts and now - last_ts < cooldown
InCooldown(uid, now) ==
    LET cooldown == Max(0, USER_COOLDOWN_SECONDS)
        last_ts == Get(user_last_request_ts, uid, 0)
    IN  cooldown # 0 /\ last_ts # 0 /\ now - last_ts < cooldown

(* ---------- the video cache on disk (services/video_cache.py) ---------- *)
\* an entry directory: whether it exists, the artifact file in it (0: none)
\* and whether that file is written to its end, and meta.json (meta_v 0: none).
\* seq orders the stored_at of two stores that fall on the same clock value:
\* time.time() moves on while a store copies its file.
NoEntry == [dir |-> FALSE, file |-> 0, whole |-> FALSE,
            meta_v |-> 0, stored_at |-> 0, seq |-> 0]
\* a coroutine slot of the cache and the locals of the call running in it
IdleOp == [pc |-> "idle", url |-> 0, v |-> 0, meta_v |-> 0, meta_at |-> 0,
           got_v |-> 0, got_whole |-> FALSE]
NoStore == [url |-> 0, v |-> 0, at |-> 0]

(* ---------- download_video (utils/downloader.py) ---------- *)
\* no call of download_video is in progress.  `enabled` is what
\* `video_cache and video_cache.is_enabled()` gives, `attempt` the loop index,
\* `last_error` the attempt whose DownloadError the except clause caught last
\* (-1: none); tool_log, refreshes, stores and swallowed are the history of
\* the call: the outcomes of _download_once, the forced cookie refreshes, the
\* calls of store_copy, and the exceptions of the cache that were caught.
IdleCall == [pc |-> "idle", url |-> 0, enabled |-> FALSE, cached |-> FALSE,
             attempt |-> 0, last_error |-> -1, tool_log |-> <<>>,
             refreshes |-> 0, stores |-> 0, swallowed |-> 0,
             result |-> "none", raised |-> -1]

\* no call of _download_once is running. instagram, cookies_path and direct say
\* whether the URL names instagram.com, whether a cookie file is configured and
\* whether instagram_direct was imported; last_line is the kind of the tool's
\* last diagnostic line; workdir holds the files of the working directory;
\* invoked is the history of the external tools the call has run, each with the
\* way it ended ("audio" and "video" name the run of yt-dlp for that stream
\* alone); error is the message of the DownloadError the call raised, part by
\* part.
IdleOnce == [pc |-> "idle", instagram |-> FALSE, cookies_path |-> FALSE,
             direct |-> FALSE, expect_audio |-> TRUE, expect_video |-> TRUE,
             last_line |-> "none", has_audio |-> FALSE, has_video |-> FALSE,
             fetching |-> "none", workdir |-> {}, invoked |-> <<>>,
             result |-> "none", error |-> <<>>]

\* monitor_loop has not been started. interval and stuck_seconds_required are
\* the locals of that name; prev_failures is -1 for None; failures and pending
\* are the values of the running iteration; alert, todo and resume belong to a
\* running _notify_admins: the id of the row, the recipients not yet tried and
\* the place the iteration goes on from. History: failed holds the recipients
\* the last _notify_admins could not reach; last_sample is the counter
\* the previous iteration read (-1: none), this_sample the counter this
\* iteration read, saturated_since the time of the first sample of the unbroken
\* run of saturated samples that lasts up to now (-1: the last sample was not
\* saturated, or there is none), iterations counts the iterations begun,
\* caught says that the last iteration begun ended in `except Exception`, and
\* recovered that an iteration has begun after one that ended so.
MonitorOff == [pc |-> "off", interval |-> 0, stuck_seconds_required |-> 0,
               prev_failures |-> -1, backlog_duration |-> 0, stuck_duration |-> 0,
               failures |-> 0, pending |-> 0,
               alert |-> 0, todo |-> {}, failed |-> {}, resume |-> "none",
               last_sample |-> -1, this_sample |-> -1, saturated_since |-> -1,
               iterations |-> 0, caught |-> FALSE, recovered |-> FALSE]
\* _cleanup_loop has not been started; last says how its last iteration ended,
\* recovered that an iteration has begun after one that ended in `except Exception`
SweeperOff == [pc |-> "off", last |-> "none", recovered |-> FALSE]

\* what a call of the bridge gave its caller: status is "ok", "empty" for the
\* {} of a failed snapshot, or the error raised
NoResult == [status |-> "none", flag |-> FALSE, count |-> 0,
             snapshot |-> [active_total |-> 0, pending_total |-> 0,
                           in_use |-> 0, available |-> 0]]
\* no call is made; queued says that `runner` is scheduled on the bot's loop
\* and has not run
AdminIdle == [pc |-> "idle", action |-> "none", arg |-> 0,
              result |-> NoResult, queued |-> FALSE]

\* the refresher after __init__: no refresh runs, the pool holds the codes of
\* IG_2FA_BACKUP_CODES in their order; submitted lists the codes that were
\* filled into the form and sent, asked says that the running refresh has
\* found a field for the code
RefresherIdle == [pc |-> "idle", selector |-> 0,
                  backup_codes |-> [k \in 1..NumBackupCodes |-> k],
                  submitted |-> <<>>, asked |-> FALSE,
                  status |-> "none", refreshed |-> FALSE, last_status |-> "never"]

(* ---------- initial state ---------- *)
Init ==
    /\ clock = 1   \* time.time() at start: any non-zero epoch value
    /\ ticks = 0
    /\ user_last_request_ts = EmptyDict
    /\ user_active_downloads = EmptyDict
    /\ chat_last_callback_ts = EmptyDict
    /\ global_callback_events = <<>>
    /\ pending_downloads = EmptyDict
    /\ semaphore_value = MAX_GLOBAL_CONCURRENT_DOWNLOADS
    /\ jobs = [j \in Handlers |-> IdleJob]
    /\ minted = 0
    /\ redeemed = [t \in 1..MaxTokens |-> 0]
    /\ rate_passes = <<>>
    /\ reply = NoReply
    /\ cache_entries = [u \in Urls |-> NoEntry]
    /\ cache_lock = 0
    /\ cache_ops = [i \in CacheOps |-> IdleOp]
    /\ cache_stores = 0
    /\ cache_last_store = NoStore
    /\ download_call = IdleCall
    /\ once = IdleOnce
    /\ health_alerts = <<>>
    /\ wall_clock = 0
    /\ monitor = MonitorOff
    /\ outbox = <<>>
    /\ sweeper = SweeperOff
    /\ admin = AdminIdle
    /\ refresher = RefresherIdle

(* ---------- direct requests (handlers/downloads.py) ---------- *)
\* DirectVerdict with the active-downloads check applied in group chats as well
DirectVerdict_cap_in_groups(uid, chat, allowed, url, blocked) ==
    LET active == Get(user_active_downloads, uid, 0)
    IN  IF ~allowed THEN "access_denied"
        ELSE IF url = "unsafe" THEN "unsafe_url"
        ELSE IF url = "unsupported" THEN "unsupported"
        ELSE IF blocked THEN "quota_blocked"
        ELSE IF AtActiveLimit(active) THEN "active_limit"
        ELSE IF InCooldown(uid, clock) THEN "cooldown"
        ELSE IF ChatType(chat) = "group" THEN "minted"
        ELSE "admitted"

\* DirectVerdict going on although the quota plan says "blocked"
DirectVerdict_ignore_quota(uid, chat, allowed, url, blocked) ==
    LET active == Get(user_active_downloads, uid, 0)
    IN  IF ~allowed THEN "access_denied"
        ELSE IF url = "unsafe" THEN "unsafe_url"
        ELSE IF url = "unsupported" THEN "unsupported"
        ELSE IF AtActiveLimit(active) /\ ChatType(chat) # "group" THEN "active_limit"
        ELSE IF InCooldown(uid, clock) THEN "cooldown"
        ELSE IF ChatType(chat) = "group" THEN "minted"
        ELSE "admitted"

\* DirectVerdict without the group branch: a group request is admitted at once
DirectVerdict_group_admits(uid, chat, allowed, url, blocked) ==
    LET active == Get(user_active_downloads, uid, 0)
    IN  IF ~allowed THEN "access_denied"
        ELSE IF url = "unsafe" THEN "unsafe_url"
        ELSE IF url = "unsupported" THEN "unsupported"
        ELSE IF blocked THEN "quota_blocked"
        ELSE IF AtActiveLimit(active) /\ ChatType(chat) # "group" THEN "active_limit"
        ELSE IF InCooldown(uid, clock) THEN "cooldown"
        ELSE "admitted"

\* the verdict of _process_download_flow up to the mint or the admission
DirectVerdict(uid, chat, allowed, url, blocked) ==
    LET active == Get(user_active_downloads, uid, 0)
    IN  IF ~allowed THEN "access_denied"
        ELSE IF url = "unsafe" THEN "unsafe_url"
        ELSE IF url = "unsupported" THEN "unsupported"
        ELSE IF blocked THEN "quota_blocked"
        ELSE IF AtActiveLimit(active) /\ ChatType(chat) # "group" THEN "active_limit"
        ELSE IF InCooldown(uid, clock) THEN "cooldown"
        ELSE IF ChatType(chat) = "group" THEN "minted"
        ELSE "admitted"

\* _process_download_flow from its entry to the return of a denial, to the
\* return after the mint, or to the first await after the admission
process_download_flow(j, uid, chat, allowed, url, blocked) ==
    LET verdict == DirectVerdict(uid, chat, allowed, url, blocked)
        active == Get(user_active_downloads, uid, 0)
        token == minted + 1
    IN  /\ Startable(j)
        /\ IF verdict = "minted"
           THEN /\ minted < MaxTokens
                /\ pending_downloads' = Put(pending_downloads, token,
                       [url |-> url, initiator_id |-> uid, ts |-> clock,
                        source_chat_id |-> chat])
                /\ minted' = token
                /\ reply' = Ended("group", uid, "minted", token)
                /\ UNCHANGED <<user_last_request_ts, user_active_downloads, jobs>>
           ELSE IF verdict = "admitted"
           THEN /\ user_last_request_ts' = Put(user_last_request_ts, uid, clock)
                /\ user_active_downloads' = Put(user_active_downloads, uid, active + 1)
                /\ jobs' = [jobs EXCEPT ![j] =
                       [IdleJob EXCEPT !.pc = "wait_slot", !.uid = uid,
                                       !.acquired = TRUE]]
                /\ reply' = NoReply
                /\ UNCHANGED <<pending_downloads, minted>>
           ELSE /\ reply' = Ended(ContextSource(chat), uid, verdict, 0)
                /\ UNCHANGED <<pending_downloads, minted, user_last_request_ts,
                               user_active_downloads, jobs>>
        /\ UNCHANGED <<clock, ticks, chat_last_callback_ts, global_callback_events,
                       semaphore_value, redeemed, rate_passes>>

(* ---------- token confirmations (handlers/callbacks.py) ---------- *)
\* pop_entry reading the entry with .get() and leaving it in the map
peek_entry(token) == pending_downloads

\* pop_entry leaving a token in the map when its time-to-live has run out
pop_entry_live_only(token) ==
    IF /\ token \in DOMAIN pending_downloads
       /\ clock - pending_downloads[token].ts > PENDING_TOKEN_TTL
    THEN pending_downloads
    ELSE Pop(pending_downloads, token)

\* state.pending_downloads.pop(token, None): the map after the pop
pop_entry(token) == Pop(pending_downloads, token)

\* CallbackVerdict without the time-to-live check
CallbackVerdict_no_ttl(uid, entry_found, entry, allowed, blocked) ==
    LET chat_slot == consume_chat_rate_slot(entry.source_chat_id, clock)
        global_slot == consume_global_rate_slot(clock)
        active == Get(user_active_downloads, uid, 0)
    IN  IF ~entry_found THEN "missing"
        ELSE IF ~allowed THEN "access_denied"
        ELSE IF blocked THEN "quota_blocked"
        ELSE IF ~chat_slot.ok THEN "chat_rate_limited"
        ELSE IF ~global_slot.ok THEN "global_rate_limited"
        ELSE IF AtActiveLimit(active) THEN "active_limit"
        ELSE IF InCooldown(uid, clock) THEN "cooldown"
        ELSE "admitted"

\* CallbackVerdict checking the cap and the cooldown of the token's initiator
CallbackVerdict_of_initiator(uid, entry_found, entry, allowed, blocked) ==
    LET chat_slot == consume_chat_rate_slot(entry.source_chat_id, clock)
        global_slot == consume_global_rate_slot(clock)
        active == Get(user_active_downloads, entry.initiator_id, 0)
    IN  IF ~entry_found THEN "missing"
        ELSE IF clock - entry.ts > PENDING_TOKEN_TTL THEN "expired"
        ELSE IF ~allowed THEN "access_denied"
        ELSE IF blocked THEN "quota_blocked"
        ELSE IF ~chat_slot.ok THEN "chat_rate_limited"
        ELSE IF ~global_slot.ok THEN "global_rate_limited"
        ELSE IF AtActiveLimit(active) THEN "active_limit"
        ELSE IF InCooldown(entry.initiator_id, clock) THEN "cooldown"
        ELSE "admitted"

\* CallbackVerdict with the per-actor checks moved in front of the rate limiters
CallbackVerdict_actor_first(uid, entry_found, entry, allowed, blocked) ==
    LET chat_slot == consume_chat_rate_slot(entry.source_chat_id, clock)
        global_slot == consume_global_rate_slot(clock)
        active == Get(user_active_downloads, uid, 0)
    IN  IF ~entry_found THEN "missing"
        ELSE IF clock - entry.ts > PENDING_TOKEN_TTL THEN "expired"
        ELSE IF ~allowed THEN "access_denied"
        ELSE IF blocked THEN "quota_blocked"
        ELSE IF AtActiveLimit(active) THEN "active_limit"
        ELSE IF InCooldown(uid, clock) THEN "cooldown"
        ELSE IF ~chat_slot.ok THEN "chat_rate_limited"
        ELSE IF ~global_slot.ok THEN "global_rate_limited"
        ELSE "admitted"

\* the verdict of handle_download_callback on a popped entry (None when missing)
CallbackVerdict(uid, entry_found, entry, allowed, blocked) ==
    LET chat_slot == consume_chat_rate_slot(entry.source_chat_id, clock)
        global_slot == consume_global_rate_slot(clock)
        active == Get(user_active_downloads, uid, 0)
    IN  IF ~entry_found THEN "missing"
        ELSE IF clock - entry.ts > PENDING_TOKEN_TTL THEN "expired"
        ELSE IF ~allowed THEN "access_denied"
        ELSE IF blocked THEN "quota_blocked"
        ELSE IF ~chat_slot.ok THEN "chat_rate_limited"
        ELSE IF ~global_slot.ok THEN "global_rate_limited"
        ELSE IF AtActiveLimit(active) THEN "active_limit"
        ELSE IF InCooldown(uid, clock) THEN "cooldown"
        ELSE "admitted"

\* handle_download_callback from its entry to the return of a denial or to
\* `await callback.answer(download.starting)`
handle_download_callback(j, uid, token, allowed, blocked) ==
    LET entry_found == token \in DOMAIN pending_downloads
        entry == pending_downloads[token]
        verdict == CallbackVerdict(uid, entry_found, entry, allowed, blocked)
        chat_slot == consume_chat_rate_slot(entry.source_chat_id, clock)
        global_slot == consume_global_rate_slot(clock)
        reached_chat == verdict \notin {"missing", "expired", "access_denied",
                                        "quota_blocked"}
        reached_global == reached_chat /\ chat_slot.ok
    IN  /\ Startable(j)
        /\ pending_downloads' = pop_entry(token)
        /\ redeemed' = IF verdict \in {"missing", "expired"} THEN redeemed
                       ELSE [redeemed EXCEPT ![token] = @ + 1]
        /\ chat_last_callback_ts' =
               IF reached_chat THEN chat_slot.ts ELSE chat_last_callback_ts
        /\ global_callback_events' =
               IF reached_global THEN global_slot.events ELSE global_callback_events
        /\ rate_passes' =
               IF reached_global /\ global_slot.counted
               THEN Append(rate_passes, clock) ELSE rate_passes
        /\ IF verdict = "admitted"
           THEN /\ jobs' = [jobs EXCEPT ![j] =
                       [IdleJob EXCEPT !.pc = "cb_answer", !.uid = uid, !.now = clock,
                                       !.active = Get(user_active_downloads, uid, 0)]]
                /\ reply' = NoReply
           ELSE /\ reply' = Ended("callback", uid, verdict, token)
                /\ UNCHANGED jobs
        /\ UNCHANGED <<clock, ticks, user_last_request_ts, user_active_downloads,
                       semaphore_value, minted>>

\* handle_download_callback after `await callback.answer(download.starting)`:
\* the stamp and the counter are written from the values read before the await
callback_count(j) ==
    /\ reply = NoReply
    /\ jobs[j].pc = "cb_answer"
    /\ user_last_request_ts' = Put(user_last_request_ts, jobs[j].uid, jobs[j].now)
    /\ user_active_downloads' =
           Put(user_active_downloads, jobs[j].uid, jobs[j].active + 1)
    /\ jobs' = [jobs EXCEPT ![j] =
           [@ EXCEPT !.pc = "wait_slot", !.acquired = TRUE, !.active = 0, !.now = 0]]
    /\ reply' = NoReply
    /\ UNCHANGED <<clock, ticks, chat_last_callback_ts, global_callback_events,
                   pending_downloads, semaphore_value, minted, redeemed,
                   rate_passes>>

(* ---------- the guarded pipeline and the end of a job (both handlers) ---------- *)
\* acquire_slot entering the guarded block without waiting for a free slot
acquire_slot_unguarded(j) ==
    /\ reply = NoReply
    /\ jobs[j].pc = "wait_slot"
    /\ semaphore_value' = semaphore_value - 1
    /\ jobs' = [jobs EXCEPT ![j].pc = "running"]
    /\ reply' = NoReply
    /\ UNCHANGED <<clock, ticks, user_last_request_ts, user_active_downloads,
                   chat_last_callback_ts, global_callback_events, pending_downloads,
                   minted, redeemed, rate_passes>>

\* acquire_slot entered only while a second slot is free
acquire_slot_spare(j) ==
    /\ reply = NoReply
    /\ jobs[j].pc = "wait_slot"
    /\ semaphore_value > 1
    /\ semaphore_value' = semaphore_value - 1
    /\ jobs' = [jobs EXCEPT ![j].pc = "running"]
    /\ reply' = NoReply
    /\ UNCHANGED <<clock, ticks, user_last_request_ts, user_active_downloads,
                   chat_last_callback_ts, global_callback_events, pending_downloads,
                   minted, redeemed, rate_passes>>

\* `async with global_download_semaphore:` entered
acquire_slot(j) ==
    /\ reply = NoReply
    /\ jobs[j].pc = "wait_slot"
    /\ semaphore_value > 0
    /\ semaphore_value' = semaphore_value - 1
    /\ jobs' = [jobs EXCEPT ![j].pc = "running"]
    /\ reply' = NoReply
    /\ UNCHANGED <<clock, ticks, user_last_request_ts, user_active_downloads,
                   chat_last_callback_ts, global_callback_events, pending_downloads,
                   minted, redeemed, rate_passes>>

\* download_video returns, raises DownloadError or raises anything else
PipelineOutcomes == {"returned", "DownloadError", "Exception"}
\* where the handler continues: after the guarded block or in an except clause
After(outcome) == IF outcome = "returned" THEN "sending" ELSE "except_" \o outcome

\* an await between the admission and the semaphore raises (reply, status edit)
fail_before_slot(j) ==
    /\ reply = NoReply
    /\ jobs[j].pc = "wait_slot"
    /\ jobs' = [jobs EXCEPT ![j].pc = After("Exception")]
    /\ reply' = NoReply
    /\ UNCHANGED <<clock, ticks, user_last_request_ts, user_active_downloads,
                   chat_last_callback_ts, global_callback_events, pending_downloads,
                   semaphore_value, minted, redeemed, rate_passes>>

\* leave_slot releasing the slot only when the guarded body returns normally
leave_slot_leaky(j, outcome) ==
    /\ reply = NoReply
    /\ jobs[j].pc = "running"
    /\ semaphore_value' = IF outcome = "returned" THEN semaphore_value + 1
                          ELSE semaphore_value
    /\ jobs' = [jobs EXCEPT ![j].pc = After(outcome)]
    /\ reply' = NoReply
    /\ UNCHANGED <<clock, ticks, user_last_request_ts, user_active_downloads,
                   chat_last_callback_ts, global_callback_events, pending_downloads,
                   minted, redeemed, rate_passes>>

\* the guarded body ends; __aexit__ of the semaphore releases the slot
leave_slot(j, outcome) ==
    /\ reply = NoReply
    /\ jobs[j].pc = "running"
    /\ semaphore_value' = semaphore_value + 1
    /\ jobs' = [jobs EXCEPT ![j].pc = After(outcome)]
    /\ reply' = NoReply
    /\ UNCHANGED <<clock, ticks, user_last_request_ts, user_active_downloads,
                   chat_last_callback_ts, global_callback_events, pending_downloads,
                   minted, redeemed, rate_passes>>

\* how a job whose download succeeded ends: sent, file over the Telegram limit,
\* send_document failed too, or an exception on the way
SendOutcomes == {"success", "large_file", "send_error", "error"}

\* release without the floor at zero
release_unfloored(uid) ==
    Put(user_active_downloads, uid, Get(user_active_downloads, uid, 0) - 1)

\* max(0, state.user_active_downloads.get(uid, 0) - 1)
release(uid) ==
    Put(user_active_downloads, uid, Max(0, Get(user_active_downloads, uid, 0) - 1))

\* the rest of the handler after the guarded block, ending in `finally:`
finally_block(j, exit) ==
    /\ reply = NoReply
    /\ jobs[j].pc \in {After(o) : o \in PipelineOutcomes}
    /\ jobs[j].pc = "sending" \/ exit = "error"
    /\ user_active_downloads' =
           IF jobs[j].acquired THEN release(jobs[j].uid) ELSE user_active_downloads
    /\ jobs' = [jobs EXCEPT ![j] = IdleJob]
    /\ reply' = NoReply
    /\ UNCHANGED <<clock, ticks, user_last_request_ts, chat_last_callback_ts,
                   global_callback_events, pending_downloads, semaphore_value,
                   minted, redeemed, rate_passes>>

(* ---------- background sweeper (bot_app/maintenance.py) ---------- *)
\* _purge_pending dropping every token issued before `now`
purge_pending_eager(now) ==
    [t \in {k \in DOMAIN pending_downloads : ~(now - pending_downloads[k].ts > 0)}
        |-> pending_downloads[t]]

\* _purge_pending
purge_pending(now) ==
    [t \in {k \in DOMAIN pending_downloads :
                ~(now - pending_downloads[k].ts > PENDING_TOKEN_TTL)}
        |-> pending_downloads[t]]

\* the users whose counter _purge_stuck_actives forces to zero
StuckUsers(now, stuck_timeout) ==
    {u \in DOMAIN user_active_downloads :
        /\ user_active_downloads[u] > 0
        /\ now - Get(user_last_request_ts, u, 0) > stuck_timeout}

\* _purge_stuck_actives
purge_stuck_actives(now, stuck_timeout, last_ttl) ==
    LET idle == {u \in DOMAIN user_active_downloads :
                    /\ user_active_downloads[u] <= 0
                    /\ now - Get(user_last_request_ts, u, 0) > last_ttl}
    IN  [u \in (DOMAIN user_active_downloads) \ idle |->
            IF u \in StuckUsers(now, stuck_timeout) THEN 0
            ELSE user_active_downloads[u]]

\* _purge_stale_last_requests, run on the counters _purge_stuck_actives left
purge_stale_last_requests(now, last_ttl, actives) ==
    [u \in {k \in DOMAIN user_last_request_ts :
                ~(now - user_last_request_ts[k] > last_ttl /\ Get(actives, k, 0) <= 0)}
        |-> user_last_request_ts[u]]

\* one iteration of _cleanup_loop
cleanup_loop ==
    LET now == clock
        stuck_timeout == Max(USER_COOLDOWN_SECONDS, DOWNLOAD_STUCK_TIMEOUT_SECONDS)
        last_ttl == Max(USER_COOLDOWN_SECONDS, USER_STATE_TTL_SECONDS)
        actives == purge_stuck_actives(now, stuck_timeout, last_ttl)
    IN  /\ reply = NoReply
        /\ pending_downloads' = purge_pending(now)
        /\ user_active_downloads' = actives
        /\ user_last_request_ts' = purge_stale_last_requests(now, last_ttl, actives)
        /\ reply' = NoReply
        /\ UNCHANGED <<clock, ticks, chat_last_callback_ts, global_callback_events,
                       semaphore_value, jobs, minted, redeemed, rate_passes>>

(* ---------- administrative operations (bot_app/admin_runtime.py) ---------- *)
\* cancel_user_downloads leaving the actor's last-request stamp in place
cancel_keeps_stamp(user_id) ==
    /\ reply = NoReply
    /\ IF user_id \notin DOMAIN user_active_downloads
       THEN UNCHANGED user_active_downloads
       ELSE user_active_downloads' = Put(user_active_downloads, user_id, 0)
    /\ reply' = NoReply
    /\ UNCHANGED <<clock, ticks, user_last_request_ts, chat_last_callback_ts,
                   global_callback_events, pending_downloads, semaphore_value,
                   jobs, minted, redeemed, rate_passes>>


cancel_user_downloads(user_id) ==
    /\ reply = NoReply
    /\ IF user_id \notin DOMAIN user_active_downloads
       THEN UNCHANGED <<user_active_downloads, user_last_request_ts>>
       ELSE /\ user_active_downloads' = Put(user_active_downloads, user_id, 0)
            /\ user_last_request_ts' = Pop(user_last_request_ts, user_id)
    /\ reply' = NoReply
    /\ UNCHANGED <<clock, ticks, chat_last_callback_ts, global_callback_events,
                   pending_downloads, semaphore_value, jobs, minted, redeemed,
                   rate_passes>>

\* drop_pending_token clearing the whole map
drop_pending_token_clears(token) ==
    /\ reply = NoReply
    /\ pending_downloads' = EmptyDict
    /\ reply' = NoReply
    /\ UNCHANGED <<clock, ticks, user_last_request_ts, user_active_downloads,
                   chat_last_callback_ts, global_callback_events, semaphore_value,
                   jobs, minted, redeemed, rate_passes>>

\* state.pending_downloads.pop(token, None)
drop_pending_token(token) ==
    /\ reply = NoReply
    /\ pending_downloads' = Pop(pending_downloads, token)
    /\ reply' = NoReply
    /\ UNCHANGED <<clock, ticks, user_last_request_ts, user_active_downloads,
                   chat_last_callback_ts, global_callback_events, semaphore_value,
                   jobs, minted, redeemed, rate_passes>>

flush_pending_tokens ==
    /\ reply = NoReply
    /\ pending_downloads' = EmptyDict
    /\ reply' = NoReply
    /\ UNCHANGED <<clock, ticks, user_last_request_ts, user_active_downloads,
                   chat_last_callback_ts, global_callback_events, semaphore_value,
                   jobs, minted, redeemed, rate_passes>>

\* get_runtime_snapshot: the "in_use" figure of the semaphore section
in_use == Max(0, Max(1, MAX_GLOBAL_CONCURRENT_DOWNLOADS) - semaphore_value)

\* get_runtime_snapshot: it reads the state and writes nothing
get_runtime_snapshot ==
    /\ reply = NoReply
    /\ reply' = NoReply
    /\ UNCHANGED <<clock, ticks, user_last_request_ts, user_active_downloads,
                   chat_last_callback_ts, global_callback_events, pending_downloads,
                   semaphore_value, jobs, minted, redeemed, rate_passes>>

\* sum(state.user_active_downloads.values())
RECURSIVE SumValues(_)
SumValues(d) ==
    IF DOMAIN d = {} THEN 0
    ELSE LET k == CHOOSE x \in DOMAIN d : TRUE IN d[k] + SumValues(Pop(d, k))

(* ---------- the panel's bridge (admin_panel/runtime_controls.py) ---------- *)
\* the operations of the runtime controller; "unknown" is any other name
AdminActions == {"cancel_user", "drop_token", "flush_tokens", "snapshot", "unknown"}

\* the values of the payload field an action reads: an actor id or a token,
\* 0 when the field is missing
Payloads(action) ==
    IF action = "cancel_user" THEN {0} \cup Actors
    ELSE IF action = "drop_token" THEN {0} \cup (1..MaxTokens)
    ELSE {0}

\* what the function of admin_runtime called for an action returns: the bool
\* of cancel and drop, the number of flush, the figures of the snapshot
admin_result(action, arg) ==
    CASE action = "cancel_user" ->
             [NoResult EXCEPT !.status = "ok",
                              !.flag = arg \in DOMAIN user_active_downloads]
      [] action = "drop_token" ->
             [NoResult EXCEPT !.status = "ok",
                              !.flag = arg \in DOMAIN pending_downloads]
      [] action = "flush_tokens" ->
             [NoResult EXCEPT !.status = "ok",
                              !.count = Cardinality(DOMAIN pending_downloads)]
      [] action = "snapshot" ->
             [NoResult EXCEPT !.status = "ok",
                  !.snapshot = [active_total |-> SumValues(user_active_downloads),
                                pending_total |-> Cardinality(DOMAIN pending_downloads),
                                in_use |-> in_use, available |-> semaphore_value]]

\* the call of that function
admin_call(action, arg) ==
    CASE action = "cancel_user" -> cancel_user_downloads(arg)
      [] action = "drop_token" -> drop_pending_token(arg)
      [] action = "flush_tokens" -> flush_pending_tokens
      [] action = "snapshot" -> get_runtime_snapshot

\* the checks of perform_action before it calls anything
admin_error(action, arg) ==
    IF action = "cancel_user" /\ arg = 0 THEN "user_id is required"
    ELSE IF action = "drop_token" /\ arg = 0 THEN "token is required"
    ELSE IF action = "unknown" THEN "unknown action"
    ELSE "none"

\* perform_action / snapshot up to the wait for the future, with a loop to
\* schedule `runner` on or without one
perform_action(action, arg, bot_loop) ==
    /\ admin.pc # "waiting"
    /\ ~admin.queued
    /\ IF admin_error(action, arg) # "none"
       THEN /\ admin' = [pc |-> "raised", action |-> action, arg |-> arg,
                         result |-> [NoResult EXCEPT !.status = admin_error(action, arg)],
                         queued |-> FALSE]
            /\ UNCHANGED core_vars
       ELSE IF bot_loop
       THEN /\ admin' = [pc |-> "waiting", action |-> action, arg |-> arg,
                         result |-> NoResult, queued |-> TRUE]
            /\ UNCHANGED core_vars
       ELSE /\ admin_call(action, arg)
            /\ admin' = [pc |-> "returned", action |-> action, arg |-> arg,
                         result |-> admin_result(action, arg), queued |-> FALSE]

\* runner, called by the bot's loop: it sets the future, which the caller
\* gets if it still waits
runner ==
    /\ admin.queued
    /\ admin_call(admin.action, admin.arg)
    /\ admin' = IF admin.pc = "waiting"
                THEN [admin EXCEPT !.pc = "returned", !.queued = FALSE,
                          !.result = admin_result(admin.action, admin.arg)]
                ELSE [admin EXCEPT !.queued = FALSE]

\* future.result(timeout=5) runs out: perform_action raises the timeout,
\* snapshot catches it and returns {}
future_timeout ==
    /\ admin.pc = "waiting"
    /\ admin' = IF admin.action = "snapshot"
                THEN [admin EXCEPT !.pc = "returned", !.result.status = "empty"]
                ELSE [admin EXCEPT !.pc = "raised",
                                   !.result.status = "TimeoutError"]
    /\ UNCHANGED core_vars

(* ---------- the cookie refresher (services/instagram_cookies.py) ---------- *)
\* the fields of the challenge page _handle_two_factor_if_needed looks for
Selectors == <<"verificationCode", "security_code">>

\* refresh returning a RefreshResult: the call ends, the lock is free
refresh_returns(status, refreshed, remember) ==
    [refresher EXCEPT !.pc = "idle", !.selector = 0, !.status = status,
                      !.refreshed = refreshed,
                      !.last_status = IF remember THEN status ELSE @]

\* refresh up to the click on the login form: the early returns, and the
\* exceptions of the login page
refresh(credentials, enabled, playwright, fresh, force, page_ok) ==
    /\ refresher.pc = "idle"
    /\ refresher' =
           IF ~credentials THEN refresh_returns("disabled", FALSE, FALSE)
           ELSE IF ~enabled THEN refresh_returns("disabled", FALSE, FALSE)
           ELSE IF ~playwright THEN refresh_returns("error", FALSE, FALSE)
           ELSE IF ~force /\ fresh THEN refresh_returns("skipped", FALSE, FALSE)
           ELSE IF ~page_ok THEN refresh_returns("error", FALSE, TRUE)
           ELSE [refresher EXCEPT !.pc = "two_factor", !.selector = 1,
                                  !.asked = FALSE, !.status = "none",
                                  !.refreshed = FALSE]
    /\ UNCHANGED beside_refresher

\* _get_backup_code: the code, 0 for None, and the pool after the call
get_backup_code ==
    IF refresher.backup_codes = <<>>
    THEN [code |-> 0, backup_codes |-> refresher.backup_codes]
    ELSE [code |-> Head(refresher.backup_codes),
          backup_codes |-> Tail(refresher.backup_codes)]

\* one round of the loop of _handle_two_factor_if_needed: the field is on the
\* page or not. With a code at hand the body of `if not code:` is skipped, and
\* the fill, the click and the return stand inside that body, after the raise
handle_two_factor_if_needed(present) ==
    LET got == get_backup_code
        next == IF refresher.selector < Len(Selectors)
                THEN [refresher EXCEPT !.selector = @ + 1]
                ELSE [refresher EXCEPT !.pc = "wait_for_home", !.selector = 0]
    IN  /\ refresher.pc = "two_factor"
        /\ refresher' =
               IF ~present THEN next
               ELSE IF got.code = 0
               THEN [refresh_returns("needs-2fa", FALSE, TRUE) EXCEPT !.asked = TRUE]
               ELSE [next EXCEPT !.backup_codes = got.backup_codes, !.asked = TRUE]
        /\ UNCHANGED beside_refresher

\* _wait_for_home and the rest of _login_and_dump_cookies: the home page loads
\* and the cookies are written, or an exception ends the refresh
wait_for_home(ok) ==
    /\ refresher.pc = "wait_for_home"
    /\ refresher' = IF ok THEN refresh_returns("ok", TRUE, TRUE)
                    ELSE refresh_returns("error", FALSE, TRUE)
    /\ UNCHANGED beside_refresher

(* ---------- the answer of a returning handler ---------- *)
\* `await message.reply(...)` / `await callback.answer(...)` of a handler that
\* returns right after it: the answer is delivered, nothing else changes.
\* The other coroutines wait for it, which loses no behaviour, because the
\* returning handler touches no shared state after its answer.
deliver_reply ==
    /\ reply # NoReply
    /\ reply' = NoReply
    /\ UNCHANGED <<clock, ticks, user_last_request_ts, user_active_downloads,
                   chat_last_callback_ts, global_callback_events, pending_downloads,
                   semaphore_value, jobs, minted, redeemed, rate_passes>>

(* ---------- time ---------- *)
\* time.time() moves on by d, which it does at most `most` times
Pass(d, most) ==
    /\ reply = NoReply
    /\ ticks < most
    /\ clock' = clock + d
    /\ ticks' = ticks + 1
    /\ reply' = NoReply
    /\ UNCHANGED <<user_last_request_ts, user_active_downloads,
                   chat_last_callback_ts, global_callback_events, pending_downloads,
                   semaphore_value, jobs, minted, redeemed, rate_passes>>

Tick(d) == Pass(d, MaxTicks)

(* ---------- VideoCache.fetch and VideoCache.store ---------- *)
\* _read_meta: the metadata of the entry, if the directory and meta.json exist
ReadableMeta(e) == e.dir /\ e.meta_v # 0
\* is_expired taking every entry for expired
is_expired_always(stored_at) == clock - stored_at >= 0

\* _is_expired
is_expired(stored_at) == clock - stored_at > ttl_seconds
\* a new call takes the first free coroutine slot (slots are interchangeable)
OpStartable(i) ==
    /\ cache_ops[i].pc = "idle"
    /\ \A k \in 1..(i - 1) : cache_ops[k].pc # "idle"
\* no call of the cache is in progress
Quiet == \A i \in CacheOps : cache_ops[i].pc = "idle"
\* a call returns: its result stays in the slot until the caller has taken it
OpEnds(i, pc) == [cache_ops EXCEPT ![i].pc = pc]

\* fetch up to the return of `await asyncio.to_thread(self._read_meta, ...)`
fetch_read_meta(i, url) ==
    LET e == cache_entries[url]
    IN  /\ OpStartable(i)
        /\ cache_ops' = [cache_ops EXCEPT ![i] =
               IF ReadableMeta(e)
               THEN [IdleOp EXCEPT !.pc = "f_check", !.url = url,
                                   !.meta_v = e.meta_v, !.meta_at = e.stored_at]
               ELSE [IdleOp EXCEPT !.pc = "f_miss", !.url = url]]
        /\ UNCHANGED <<cache_entries, cache_lock, cache_stores, cache_last_store,
                       beside_cache>>

\* fetch from there to its next await: the expiry test and cached_file.exists()
fetch_check(i) ==
    LET op == cache_ops[i]
        e == cache_entries[op.url]
    IN  /\ op.pc = "f_check"
        /\ cache_ops' = [cache_ops EXCEPT ![i].pc =
               IF is_expired(op.meta_at) THEN "f_delete"
               ELSE IF ~(e.dir /\ e.file # 0) THEN "f_delete"
               ELSE "f_copy"]
        /\ UNCHANGED <<cache_entries, cache_lock, cache_stores, cache_last_store,
                       beside_cache>>

\* `await asyncio.to_thread(self._delete_entry, entry_dir)`, then the miss
fetch_delete_entry(i) ==
    LET op == cache_ops[i]
    IN  /\ op.pc = "f_delete"
        /\ cache_entries' = [cache_entries EXCEPT ![op.url] = NoEntry]
        /\ cache_ops' = OpEnds(i, "f_miss")
        /\ UNCHANGED <<cache_lock, cache_stores, cache_last_store, beside_cache>>

\* `await asyncio.to_thread(shutil.copy2, cached_file, dest)`: the copy holds
\* what the file holds when it is read; a vanished file makes copy2 raise, and
\* the exception leaves fetch
fetch_copy(i) ==
    LET op == cache_ops[i]
        e == cache_entries[op.url]
    IN  /\ op.pc = "f_copy"
        /\ cache_ops' = [cache_ops EXCEPT ![i] =
               IF e.dir /\ e.file # 0
               THEN [op EXCEPT !.pc = "f_hit", !.got_v = e.file, !.got_whole = e.whole]
               ELSE [op EXCEPT !.pc = "f_raised"]]
        /\ UNCHANGED <<cache_entries, cache_lock, cache_stores, cache_last_store,
                       beside_cache>>

\* store is called with a downloaded file: a new artifact
store_enter(i, url) ==
    /\ OpStartable(i)
    /\ cache_stores < MaxStores
    /\ cache_stores' = cache_stores + 1
    /\ cache_ops' = [cache_ops EXCEPT ![i] =
           [IdleOp EXCEPT !.pc = "s_lock", !.url = url, !.v = cache_stores + 1]]
    /\ cache_last_store' = NoStore
    /\ UNCHANGED <<cache_entries, cache_lock, beside_cache>>

\* `async with self._lock:` entered
store_lock(i) ==
    /\ cache_ops[i].pc = "s_lock"
    /\ cache_lock = 0
    /\ cache_lock' = i
    /\ cache_ops' = OpEnds(i, "s_prepare")
    /\ UNCHANGED <<cache_entries, cache_stores, cache_last_store, beside_cache>>

\* _prepare_entry_dir: rmtree and mkdir
store_prepare_entry_dir(i) ==
    LET op == cache_ops[i]
    IN  /\ op.pc = "s_prepare"
        /\ cache_entries' = [cache_entries EXCEPT ![op.url] =
               [NoEntry EXCEPT !.dir = TRUE]]
        /\ cache_ops' = OpEnds(i, "s_copy")
        /\ UNCHANGED <<cache_lock, cache_stores, cache_last_store, beside_cache>>

\* shutil.copy2(file_path, dest) opens dest and starts writing.  An OSError
\* (here: the directory is gone, or the disk fails) leaves store through the
\* `async with`, and store_copy swallows it.
store_copy_begin(i, io_ok) ==
    LET op == cache_ops[i]
        e == cache_entries[op.url]
    IN  /\ op.pc = "s_copy"
        /\ IF e.dir /\ io_ok
           THEN /\ cache_entries' = [cache_entries EXCEPT ![op.url] =
                       [e EXCEPT !.file = op.v, !.whole = FALSE]]
                /\ cache_ops' = OpEnds(i, "s_copying")
                /\ UNCHANGED cache_lock
           ELSE /\ cache_ops' = OpEnds(i, "s_failed")
                /\ cache_lock' = 0
                /\ UNCHANGED cache_entries
        /\ UNCHANGED <<cache_stores, cache_last_store, beside_cache>>

\* shutil.copy2 writes the last byte and copies the file times to dest
store_copy_end(i) ==
    LET op == cache_ops[i]
        e == cache_entries[op.url]
    IN  /\ op.pc = "s_copying"
        /\ IF e.dir /\ e.file = op.v
           THEN /\ cache_entries' = [cache_entries EXCEPT ![op.url].whole = TRUE]
                /\ cache_ops' = OpEnds(i, "s_meta")
                /\ UNCHANGED cache_lock
           ELSE /\ cache_ops' = OpEnds(i, "s_failed")
                /\ cache_lock' = 0
                /\ UNCHANGED cache_entries
        /\ UNCHANGED <<cache_stores, cache_last_store, beside_cache>>

\* meta = {..., "stored_at": time.time(), "file_size": dest.stat().st_size}
\* and meta_path.write_text(...)
store_write_meta(i) ==
    LET op == cache_ops[i]
        e == cache_entries[op.url]
    IN  /\ op.pc = "s_meta"
        /\ IF e.dir /\ e.file = op.v
           THEN /\ cache_entries' = [cache_entries EXCEPT ![op.url] =
                       [e EXCEPT !.meta_v = op.v, !.stored_at = clock, !.seq = op.v]]
                /\ cache_ops' = OpEnds(i, "s_prune")
                /\ UNCHANGED cache_lock
           ELSE /\ cache_ops' = OpEnds(i, "s_failed")
                /\ cache_lock' = 0
                /\ UNCHANGED cache_entries
        /\ UNCHANGED <<cache_stores, cache_last_store, beside_cache>>

\* StoredLater for a sort without reverse=True: the oldest entries come first
StoredEarlier(a, b) ==
    \/ cache_entries[a].stored_at < cache_entries[b].stored_at
    \/ /\ cache_entries[a].stored_at = cache_entries[b].stored_at
       /\ cache_entries[a].seq < cache_entries[b].seq

\* entries.sort(key=stored_at, reverse=True): a is listed before b
StoredLater(a, b) ==
    \/ cache_entries[a].stored_at > cache_entries[b].stored_at
    \/ /\ cache_entries[a].stored_at = cache_entries[b].stored_at
       /\ cache_entries[a].seq > cache_entries[b].seq
\* entries[: max_items] of _prune_if_needed
Kept ==
    {u \in Urls :
        /\ ReadableMeta(cache_entries[u])
        /\ Cardinality({w \in Urls : /\ ReadableMeta(cache_entries[w])
                                     /\ StoredLater(w, u)}) < max_items}
\* _prune_if_needed: the directory after it
prune_if_needed == [u \in Urls |-> IF u \in Kept THEN cache_entries[u] ELSE NoEntry]

\* `await asyncio.to_thread(self._prune_if_needed)` and the end of store
store_prune_if_needed(i) ==
    LET op == cache_ops[i]
    IN  /\ op.pc = "s_prune"
        /\ cache_entries' = prune_if_needed
        /\ cache_lock' = 0
        /\ cache_ops' = OpEnds(i, "s_done")
        /\ UNCHANGED <<cache_stores, cache_last_store, beside_cache>>

\* the caller takes the result of get_cached_copy / store_copy, which catch
\* what fetch / store raised
cache_return(i) ==
    LET op == cache_ops[i]
    IN  /\ op.pc \in {"f_miss", "f_hit", "f_raised", "s_done", "s_failed"}
        /\ cache_ops' = [cache_ops EXCEPT ![i] = IdleOp]
        /\ cache_last_store' =
               IF op.pc = "s_done"
               THEN [url |-> op.url, v |-> op.v, at |-> cache_entries[op.url].stored_at]
               ELSE NoStore
        /\ UNCHANGED <<cache_entries, cache_lock, cache_stores, beside_cache>>

\* time passes for the cache
cache_tick(d) == Tick(d) /\ UNCHANGED beside_core

(* ---------- download_video and its helpers (utils/downloader.py) ---------- *)
\* the cache slot in which the call of download_video runs its cache calls
CallerOp == CHOOSE i \in CacheOps : \A k \in CacheOps : i <= k
\* "instagram.com" in url.lower(): the odd URLs are the Instagram links
IsInstagram(url) == url % 2 = 1
\* what _download_once can do: return a file, raise a DownloadError whose text
\* carries one of REFRESH_ERROR_MARKERS, or raise another DownloadError.  The
\* extraction tool, the stream probe and the Instagram API fallback are all
\* invoked inside _download_once and nowhere else.
DownloadOutcomes == {"ok", "restricted", "failed"}
Last(seq) == seq[Len(seq)]

\* AfterCacheGet going on to the download although the cache gave a copy
AfterCacheGet_always_download(cached) == "download_once"

\* `if cached_path: return cached_path`, else the attempts begin
AfterCacheGet(cached) == IF cached THEN "returned" ELSE "download_once"

\* get_cached_copy: the path fetch returned, None when fetch missed or raised
get_cached_copy(op) == op.pc = "f_hit"

\* ReachesStore for a store placed where failures pass as well
ReachesStore_after_failure(outcome) == TRUE

\* `await _maybe_store_cache(url, result)` follows `result = await
\* _download_once(...)` inside the try: it is reached only if that returned
ReachesStore(outcome) == outcome = "ok"

\* store_copy letting the exception of store through
store_copy_propagates(op) == IF op.pc = "s_failed" THEN "raised" ELSE "returned"

\* store_copy: `except Exception` swallows what store raised
store_copy(op) == "returned"

\* should_retry_for_error taking every error text for a restricted-content one
should_retry_for_error_any_text(error, credentials) == credentials

\* InstagramCookieRefresher.should_retry_for_error
should_retry_for_error(error, credentials) == credentials /\ error = "restricted"

\* try_refresh_instagram asking for a refresh after every attempt
try_refresh_instagram_any_attempt(url, error, attempt, importable, credentials) ==
    /\ IsInstagram(url)
    /\ importable
    /\ should_retry_for_error(error, credentials)

\* _try_refresh_instagram up to its call of refresh_instagram_cookies: whether
\* the refresh is forced
try_refresh_instagram(url, error, attempt, importable, credentials) ==
    /\ IsInstagram(url)
    /\ ~(attempt > 0)
    /\ importable
    /\ should_retry_for_error(error, credentials)

\* download_video is called: output_dir.mkdir and _try_cache_get up to the
\* first await inside fetch
download_video(url, enabled) ==
    LET call == [IdleCall EXCEPT !.url = url, !.enabled = enabled]
    IN  /\ download_call.pc = "idle"
        /\ cache_stores < MaxStores
        /\ IF enabled
           THEN /\ fetch_read_meta(CallerOp, url)
                /\ download_call' = [call EXCEPT !.pc = "cache_get"]
           ELSE /\ download_call' = [call EXCEPT !.pc = AfterCacheGet(FALSE)]
                /\ UNCHANGED <<cache_vars, beside_cache>>

\* `cached_path = await _try_cache_get(url, output_dir)` returns
try_cache_get_returns ==
    LET op == cache_ops[CallerOp]
        cached == get_cached_copy(op)
    IN  /\ download_call.pc = "cache_get"
        /\ op.pc \in {"f_hit", "f_miss", "f_raised"}
        /\ cache_return(CallerOp)
        /\ download_call' = [download_call EXCEPT
               !.pc = AfterCacheGet(cached),
               !.cached = cached,
               !.swallowed = IF op.pc = "f_raised" THEN @ + 1 ELSE @,
               !.result = IF cached THEN "cached" ELSE "none"]

\* what the except clause of the attempt does with a DownloadError: it is kept
\* as last_error and _try_refresh_instagram decides
Caught(call) == [call EXCEPT !.pc = "try_refresh", !.last_error = call.attempt]
\* `return result`
Returned(call) == [call EXCEPT !.pc = "returned", !.result = "downloaded"]

\* one attempt of the loop: `result = await _download_once(...)`, and
\* _maybe_store_cache up to the first await inside store
download_once(outcome) ==
    LET call == [download_call EXCEPT !.tool_log = Append(@, outcome)]
    IN  /\ download_call.pc = "download_once"
        /\ IF ReachesStore(outcome) /\ call.enabled
           THEN /\ store_enter(CallerOp, call.url)
                /\ download_call' = [call EXCEPT !.pc = "store_cache",
                                                  !.stores = @ + 1]
           ELSE /\ download_call' = IF outcome = "ok" THEN Returned(call)
                                                      ELSE Caught(call)
                /\ UNCHANGED <<cache_vars, beside_cache>>

\* `await _maybe_store_cache(url, result)` returns, or lets through what
\* store_copy let through (no DownloadError: it leaves download_video)
maybe_store_cache_returns ==
    LET op == cache_ops[CallerOp]
        call == [download_call EXCEPT !.swallowed =
                    IF op.pc = "s_failed" /\ store_copy(op) = "returned"
                    THEN @ + 1 ELSE @]
    IN  /\ call.pc = "store_cache"
        /\ op.pc \in {"s_done", "s_failed"}
        /\ cache_return(CallerOp)
        /\ download_call' =
               IF store_copy(op) = "raised"
               THEN [call EXCEPT !.pc = "raised", !.result = "Exception",
                                 !.raised = call.attempt]
               ELSE IF Last(call.tool_log) = "ok" THEN Returned(call)
               ELSE Caught(call)

\* `if await _try_refresh_instagram(url, str(err), attempt): continue`, else
\* `raise`; after the last attempt `raise last_error`
try_refresh(importable, credentials, refreshed) ==
    LET forced == try_refresh_instagram(download_call.url,
                                        Last(download_call.tool_log),
                                        download_call.attempt,
                                        importable, credentials)
        call == [download_call EXCEPT !.refreshes = IF forced THEN @ + 1 ELSE @]
    IN  /\ download_call.pc = "try_refresh"
        /\ download_call' =
               IF forced /\ refreshed
               THEN IF call.attempt + 1 < attempts
                    THEN [call EXCEPT !.pc = "download_once", !.attempt = @ + 1]
                    ELSE [call EXCEPT !.pc = "raised", !.result = "DownloadError",
                                      !.raised = call.last_error]
               ELSE [call EXCEPT !.pc = "raised", !.result = "DownloadError",
                                 !.raised = call.attempt]
        /\ UNCHANGED <<cache_vars, beside_cache>>

\* the caller of download_video has its path or its exception
download_video_ends ==
    /\ download_call.pc \in {"returned", "raised"}
    /\ download_call' = IdleCall
    /\ UNCHANGED <<cache_vars, beside_cache>>

\* another job stores into the cache while the call runs; it leaves the call
\* the store the call may need
other_store(i, url) ==
    /\ i # CallerOp
    /\ cache_stores + 1 < MaxStores
    /\ store_enter(i, url)
    /\ UNCHANGED download_call

\* the other job's store_copy returns
other_return(i) ==
    /\ i # CallerOp
    /\ cache_return(i)
    /\ UNCHANGED download_call

(* ---------- _download_once: one attempt of the extraction pipeline ---------- *)
\* the last line of the tool's stderr: one that holds a phrase of
\* _should_try_instagram_fallback, one that holds none, and the empty line
LineKinds == {"restricted", "plain", ""}
\* how a run of yt-dlp ends: the executable is missing, the run times out, or
\* it exits with a code
YtDlpOutcomes == {"not_found", "timeout", "exit_nonzero", "exit_0"}
\* how the second run ends; a non-zero exit either says that the requested
\* format is not available or says something else
RefetchOutcomes == {"timeout", "format_unavailable", "failed", "exit_0"}
\* how ffmpeg ends
MergeOutcomes == {"ok", "failed", "timeout"}

\* a variant that does not ask for a cookie file
should_try_instagram_fallback_no_cookies(instagram, error_line, direct, cookies_path) ==
    /\ error_line # ""
    /\ instagram
    /\ direct
    /\ error_line = "restricted"

\* _should_try_instagram_fallback, over what it reads
should_try_instagram_fallback(instagram, error_line, direct, cookies_path) ==
    /\ error_line # ""
    /\ instagram
    /\ direct
    /\ cookies_path
    /\ error_line = "restricted"

\* a variant that never misses the video
needs_video_never(expect_video, has_video) == FALSE

\* the locals needs_audio and needs_video
needs_audio(expect_audio, has_audio) == expect_audio /\ ~has_audio
needs_video(expect_video, has_video) == expect_video /\ ~has_video

\* the branch _download_once takes after the probe
AfterProbe(has_audio, has_video, expect_audio, expect_video) ==
    LET na == needs_audio(expect_audio, has_audio)
        nv == needs_video(expect_video, has_video)
    IN  IF ~na /\ ~nv THEN "return"
        ELSE IF na /\ ~nv /\ has_video THEN "audio"
        ELSE IF nv /\ ~na /\ has_audio THEN "video"
        ELSE "unrecognized"

\* a variant that gives up after every failure of the second run
AfterRefetchFailure_always_raise(outcome) == "raise"

\* what a non-zero exit of the second run leads to
AfterRefetchFailure(outcome) ==
    IF outcome = "format_unavailable" THEN "return" ELSE "raise"

\* what is left in the working directory after a merge of the file `downloaded`
\* with the file `fetched`: the merged file is written and both inputs are unlinked
AfterMerge(workdir, fetched) == (workdir \cup {"merged"}) \ {"downloaded", fetched}

\* the call raises DownloadError with the message `message`
OnceRaises(call, message) ==
    [call EXCEPT !.pc = "raised", !.error = message]
\* the call returns the file `file`
OnceReturns(call, file) ==
    [call EXCEPT !.pc = "returned", !.result = file]

\* _download_once is called
download_once_begin(instagram, cookies_path, direct, expect_audio, expect_video) ==
    /\ once.pc = "idle"
    /\ once' = [IdleOnce EXCEPT !.pc = "yt_dlp", !.instagram = instagram,
                                !.cookies_path = cookies_path, !.direct = direct,
                                !.expect_audio = expect_audio,
                                !.expect_video = expect_video]
    /\ UNCHANGED beside_once

\* the first run of yt-dlp ends; `wrote` says whether it left a file in the
\* working directory
run_yt_dlp(outcome, line, wrote) ==
    /\ once.pc = "yt_dlp"
    /\ LET call == [once EXCEPT !.invoked = Append(@, <<"yt-dlp", outcome>>)]
       IN  once' =
             CASE outcome = "not_found" -> OnceRaises(call, <<"yt-dlp not found">>)
               [] outcome = "timeout" -> OnceRaises(call, <<"timeout">>)
               [] outcome = "exit_nonzero" ->
                    IF should_try_instagram_fallback(call.instagram, line,
                                                     call.direct, call.cookies_path)
                    THEN [call EXCEPT !.pc = "fallback", !.last_line = line]
                    ELSE OnceRaises([call EXCEPT !.last_line = line], <<"yt-dlp", line>>)
               [] outcome = "exit_0" ->
                    IF ~wrote
                    THEN OnceRaises(call, <<"file not found">>)
                    ELSE [call EXCEPT !.pc = "ffprobe", !.workdir = {"downloaded"}]
    /\ UNCHANGED beside_once

\* instagram_direct.download_sensitive_media ends
instagram_fallback(ok) ==
    /\ once.pc = "fallback"
    /\ LET call == [once EXCEPT !.invoked = Append(@, <<"instagram_direct",
                                                         IF ok THEN "ok" ELSE "failed">>)]
       IN  once' =
             IF ok
             THEN OnceReturns([call EXCEPT !.workdir = {"fallback"}], "fallback")
             ELSE OnceRaises(call, <<"yt-dlp", call.last_line, "fallback failed">>)
    /\ UNCHANGED beside_once

\* _ffprobe_has_audio_or_video returns, and the call takes its branch
ffprobe(has_audio, has_video) ==
    /\ once.pc = "ffprobe"
    /\ LET call == [once EXCEPT !.invoked = Append(@, <<"ffprobe", "ok">>),
                                !.has_audio = has_audio, !.has_video = has_video]
           branch == AfterProbe(has_audio, has_video,
                                call.expect_audio, call.expect_video)
       IN  once' =
             CASE branch = "return" -> OnceReturns(call, "downloaded")
               [] branch = "audio" -> [call EXCEPT !.pc = "refetch", !.fetching = "audio"]
               [] branch = "video" -> [call EXCEPT !.pc = "refetch", !.fetching = "video"]
               [] OTHER -> OnceRaises(call, <<"unrecognized">>)
    /\ UNCHANGED beside_once

\* the second run of yt-dlp, for the missing stream alone, ends
refetch(outcome, wrote) ==
    /\ once.pc = "refetch"
    /\ LET call == [once EXCEPT !.invoked = Append(@, <<once.fetching, outcome>>)]
       IN  once' =
             CASE outcome = "timeout" -> OnceRaises(call, <<"timeout">>)
               [] outcome \in {"format_unavailable", "failed"} ->
                    IF AfterRefetchFailure(outcome) = "return"
                    THEN OnceReturns(call, "downloaded")
                    ELSE OnceRaises(call, <<"refetch", call.fetching>>)
               [] outcome = "exit_0" ->
                    IF ~wrote
                    THEN OnceRaises(call, <<"second file not found">>)
                    ELSE [call EXCEPT !.pc = "ffmpeg",
                                      !.workdir = @ \cup {call.fetching}]
    /\ UNCHANGED beside_once

\* _ffmpeg_merge ends; after a merge the call unlinks its two inputs
ffmpeg_merge(outcome) ==
    /\ once.pc = "ffmpeg"
    /\ LET call == [once EXCEPT !.invoked = Append(@, <<"ffmpeg", outcome>>)]
       IN  once' =
             CASE outcome = "ok" ->
                    OnceReturns([call EXCEPT !.workdir = AfterMerge(@, call.fetching)],
                                "merged")
               [] outcome = "timeout" -> OnceRaises(call, <<"timeout">>)
               [] OTHER -> OnceRaises(call, <<"ffmpeg merge failed">>)
    /\ UNCHANGED beside_once

\* the caller has taken the result of the call
download_once_ends ==
    /\ once.pc \in {"returned", "raised"}
    /\ once' = IdleOnce
    /\ UNCHANGED beside_once

(* ---------- the alert store (services/alerts.py) ---------- *)
\* code.strip().lower()
normalized_code(code) == IF code = " Errors.Spike " THEN "errors.spike" ELSE code

\* the ids of the open rows of a normalized code
OpenRows(rows, code) ==
    {k \in DOMAIN rows : rows[k].code = code /\ rows[k].status = "open"}

\* order_by(created_at.desc()).limit(1) over the rows `ids`
Newest(rows, ids) ==
    CHOOSE k \in ids : \A j \in ids :
        \/ rows[j].created_at < rows[k].created_at
        \/ rows[j].created_at = rows[k].created_at /\ j <= k

\* a variant that inserts a row whether or not the code has an open one
record_alert_always_insert(rows, code, message, severity, now) ==
    [rows |-> Append(rows, [code |-> normalized_code(code), message |-> message,
                            severity |-> severity, status |-> "open",
                            created_at |-> now, updated_at |-> now,
                            resolved_at |-> -1, last_notified_at |-> -1]),
     id |-> Len(rows) + 1, created |-> TRUE]

\* record_alert: the table after the call, the id of the row and the created flag
record_alert(rows, code, message, severity, now) ==
    LET normalized == normalized_code(code)
        existing == OpenRows(rows, normalized)
    IN  IF existing # {}
        THEN LET id == Newest(rows, existing)
             IN  [rows |-> [rows EXCEPT ![id].message = message,
                                        ![id].severity = severity,
                                        ![id].updated_at = now],
                  id |-> id, created |-> FALSE]
        ELSE [rows |-> Append(rows, [code |-> normalized, message |-> message,
                                     severity |-> severity, status |-> "open",
                                     created_at |-> now, updated_at |-> now,
                                     resolved_at |-> -1, last_notified_at |-> -1]),
              id |-> Len(rows) + 1, created |-> TRUE]

\* resolve_alert: the table after the call
resolve_alert(rows, code, now) ==
    LET normalized == normalized_code(code)
        existing == OpenRows(rows, normalized)
    IN  IF existing = {}
        THEN rows
        ELSE LET id == Newest(rows, existing)
             IN  [rows EXCEPT ![id].status = "resolved",
                              ![id].resolved_at = now,
                              ![id].updated_at = now]

\* mark_alert_notified: the table after the call
mark_alert_notified(rows, alert_id, now) ==
    IF alert_id = 0
    THEN rows
    ELSE [rows EXCEPT ![alert_id].last_notified_at = now,
                      ![alert_id].updated_at = now]

\* some caller records an alert
alerts_record(code, message, severity) ==
    /\ LET r == record_alert(health_alerts, code, message, severity, wall_clock)
       IN  /\ Len(r.rows) <= MaxAlertRows
           /\ health_alerts' = r.rows
    /\ UNCHANGED <<wall_clock, monitor, outbox, sweeper>>
    /\ UNCHANGED beside_health

\* some caller resolves an alert
alerts_resolve(code) ==
    /\ health_alerts' = resolve_alert(health_alerts, code, wall_clock)
    /\ UNCHANGED <<wall_clock, monitor, outbox, sweeper>>
    /\ UNCHANGED beside_health

\* time passes between two calls of the store
alerts_tick ==
    /\ wall_clock < MaxAlertRows
    /\ wall_clock' = wall_clock + 1
    /\ UNCHANGED <<health_alerts, monitor, outbox, sweeper>>
    /\ UNCHANGED beside_health

(* ---------- the health monitor (services/health_monitor.py) ---------- *)
\* what can go wrong in a step of an iteration: nothing, the read of the
\* metrics raises, a call of the alert store raises
Faults == {"none", "metrics", "store"}
\* the values of global_download_semaphore._value
SlotValues == 0..MAX_GLOBAL_CONCURRENT_DOWNLOADS

error_threshold == Max(1, ALERT_ERROR_SPIKE_THRESHOLD)
pending_threshold == Max(1, ALERT_PENDING_THRESHOLD)
\* _should_notify: cooldown_seconds
cooldown_seconds == Max(1, ALERT_NOTIFY_COOLDOWN_MINUTES) * 60

\* a variant that forgets the baseline
spike_delta_absolute(failures, prev_failures) == Max(0, failures)

\* _check_error_spike: delta
spike_delta(failures, prev_failures) == Max(0, failures - prev_failures)

\* _check_queue_stuck: saturated
saturated(available, pending) ==
    LET max_slots == Max(1, MAX_GLOBAL_CONCURRENT_DOWNLOADS)
        busy == max_slots - Max(0, available)
    IN  busy >= max_slots /\ pending > 0

\* _check_queue_stuck: stuck_duration += interval
accumulate(duration, interval) == duration + interval

\* _should_notify, for the row of the alert
should_notify(alert, now) ==
    \/ alert.last_notified_at = -1
    \/ now - alert.last_notified_at >= cooldown_seconds

\* a variant in which the exception ends the loop
iteration_failed_exits(m) ==
    [m EXCEPT !.pc = "ended", !.caught = TRUE,
              !.alert = 0, !.todo = {}, !.resume = "none"]

\* `except Exception:` of monitor_loop: the iteration ends, the loop goes on
iteration_failed(m) ==
    [m EXCEPT !.pc = "sleep", !.caught = TRUE,
              !.alert = 0, !.todo = {}, !.resume = "none"]

\* _notify_admins up to its first await: the monitor after the call
notify_admins(m, rows, alert_id, now, resume) ==
    IF ~should_notify(rows[alert_id], now) \/ Recipients = {}
    THEN [m EXCEPT !.pc = resume]
    ELSE [m EXCEPT !.pc = "notify", !.alert = alert_id,
                   !.todo = Recipients, !.failed = {}, !.resume = resume]

\* record_alert followed by `if created: await _notify_admins(alert)`
Raise(m, rows, code, message, severity, now, resume) ==
    LET r == record_alert(rows, code, message, severity, now)
    IN  [rows |-> r.rows,
         monitor |-> IF r.created
                     THEN notify_admins(m, r.rows, r.id, now, resume)
                     ELSE [m EXCEPT !.pc = resume]]

\* monitor_loop is started
monitor_loop(interval_setting, stuck_minutes_setting) ==
    /\ monitor.pc = "off"
    /\ monitor' = [MonitorOff EXCEPT !.pc = "sleep",
                                     !.interval = Max(15, interval_setting),
                                     !.stuck_seconds_required =
                                         Max(1, stuck_minutes_setting) * 60]
    /\ UNCHANGED <<health_alerts, wall_clock, outbox, sweeper>>
    /\ UNCHANGED beside_health

\* the sleep of an iteration ends: the metrics are read and _check_error_spike
\* runs, up to its end or to the first send of _notify_admins
check_error_spike(failures, fault) ==
    /\ monitor.pc = "sleep"
    /\ monitor.iterations < MaxSamples
    /\ wall_clock' = wall_clock + monitor.interval
    /\ LET now == wall_clock + monitor.interval
           began == [monitor EXCEPT !.iterations = @ + 1, !.caught = FALSE,
                                    !.recovered = @ \/ monitor.caught]
           m == [began EXCEPT !.failures = failures,
                              !.last_sample = monitor.this_sample,
                              !.this_sample = failures]
       IN  IF fault = "metrics"
           THEN monitor' = iteration_failed(began) /\ UNCHANGED health_alerts
           ELSE IF m.prev_failures = -1
           THEN /\ monitor' = [m EXCEPT !.prev_failures = failures,
                                        !.pc = "pending_backlog"]
                /\ UNCHANGED health_alerts
           ELSE IF fault = "store"
           THEN monitor' = iteration_failed(m) /\ UNCHANGED health_alerts
           ELSE IF spike_delta(failures, m.prev_failures) >= error_threshold
           THEN LET r == Raise([m EXCEPT !.prev_failures = failures], health_alerts,
                               "errors.spike",
                               spike_delta(failures, m.prev_failures),
                               "danger", now, "pending_backlog")
                IN  monitor' = r.monitor /\ health_alerts' = r.rows
           ELSE /\ health_alerts' = resolve_alert(health_alerts, "errors.spike", now)
                /\ monitor' = [m EXCEPT !.prev_failures = failures,
                                        !.pc = "pending_backlog"]
    /\ UNCHANGED <<outbox, sweeper>>
    /\ UNCHANGED beside_health

\* state.pending_tokens_count() is read and _check_pending_backlog runs
check_pending_backlog(pending, fault) ==
    /\ monitor.pc = "pending_backlog"
    /\ LET m == [monitor EXCEPT !.pending = pending]
       IN  IF fault = "store"
           THEN monitor' = iteration_failed(m) /\ UNCHANGED health_alerts
           ELSE IF pending >= pending_threshold
           THEN LET r == Raise([m EXCEPT !.backlog_duration = @ + m.interval],
                               health_alerts, "queue.backlog", pending,
                               "warning", wall_clock, "queue_stuck")
                IN  monitor' = r.monitor /\ health_alerts' = r.rows
           ELSE /\ health_alerts' = resolve_alert(health_alerts, "queue.backlog",
                                                  wall_clock)
                /\ monitor' = [m EXCEPT !.backlog_duration = 0,
                                        !.pc = "queue_stuck"]
    /\ UNCHANGED <<wall_clock, outbox, sweeper>>
    /\ UNCHANGED beside_health

\* _check_queue_stuck runs; after it the iteration is over
check_queue_stuck(available, fault) ==
    /\ monitor.pc = "queue_stuck"
    /\ IF saturated(available, monitor.pending)
       THEN LET duration == accumulate(monitor.stuck_duration, monitor.interval)
                m == [monitor EXCEPT !.saturated_since =
                                         IF @ = -1 THEN wall_clock ELSE @]
            IN  IF duration < monitor.stuck_seconds_required
                THEN /\ monitor' = [m EXCEPT !.stuck_duration = duration,
                                             !.pc = "sleep"]
                     /\ UNCHANGED health_alerts
                ELSE IF fault = "store"
                THEN monitor' = iteration_failed(m) /\ UNCHANGED health_alerts
                ELSE LET r == Raise([m EXCEPT !.stuck_duration = duration],
                                    health_alerts, "queue.stuck", monitor.pending,
                                    "danger", wall_clock, "sleep")
                     IN  monitor' = r.monitor /\ health_alerts' = r.rows
       ELSE LET m == [monitor EXCEPT !.saturated_since = -1]
            IN  IF fault = "store"
                THEN monitor' = iteration_failed(m) /\ UNCHANGED health_alerts
                ELSE /\ health_alerts' = resolve_alert(health_alerts, "queue.stuck",
                                                       wall_clock)
                     /\ monitor' = [m EXCEPT !.stuck_duration = 0, !.pc = "sleep"]
    /\ UNCHANGED <<wall_clock, outbox, sweeper>>
    /\ UNCHANGED beside_health

\* a variant in which a failed send ends the loop over the recipients
send_outcome_gives_up(m, chat_id, ok) ==
    [m EXCEPT !.todo = IF ok THEN @ \ {chat_id} ELSE {},
              !.failed = IF ok THEN @ ELSE @ \cup {chat_id}]

\* one pass of the loop over the recipients: send_message returned (ok) or
\* raised, which is logged
send_outcome(m, chat_id, ok) ==
    [m EXCEPT !.todo = @ \ {chat_id},
              !.failed = IF ok THEN @ ELSE @ \cup {chat_id}]

\* bot.send_message for the next recipient ends; after the last one
\* mark_alert_notified runs (an exception of it is swallowed) and the iteration
\* goes on
send_message(ok, fault) ==
    /\ monitor.pc = "notify"
    /\ LET chat_id == CHOOSE c \in monitor.todo : \A d \in monitor.todo : c <= d
           sent == send_outcome(monitor, chat_id, ok)
           rest == sent.todo
       IN  /\ outbox' = Append(outbox, [chat_id |-> chat_id,
                                        code |-> health_alerts[monitor.alert].code,
                                        alert |-> monitor.alert,
                                        at |-> wall_clock])
           /\ IF rest # {}
              THEN /\ monitor' = sent
                   /\ UNCHANGED health_alerts
              ELSE /\ monitor' = [sent EXCEPT !.pc = monitor.resume, !.alert = 0,
                                              !.resume = "none"]
                   /\ health_alerts' =
                        IF fault = "store"
                        THEN health_alerts
                        ELSE mark_alert_notified(health_alerts, monitor.alert,
                                                 wall_clock)
    /\ UNCHANGED <<wall_clock, sweeper>>
    /\ UNCHANGED beside_health

\* the task of the loop is cancelled while it awaits
monitor_cancel ==
    /\ monitor.pc \in {"sleep", "notify"}
    /\ monitor' = [monitor EXCEPT !.pc = "cancelled"]
    /\ UNCHANGED <<health_alerts, wall_clock, outbox, sweeper>>
    /\ UNCHANGED beside_health

(* ---------- the sweeper loop (bot_app/maintenance.py) ---------- *)
\* `except Exception:` of _cleanup_loop: the iteration ends, the loop goes on
cleanup_caught(loop) == [loop EXCEPT !.pc = "sleep", !.last = "caught"]

\* start_background_tasks creates the task
cleanup_loop_start ==
    /\ sweeper.pc = "off"
    /\ sweeper' = [sweeper EXCEPT !.pc = "sleep"]
    /\ UNCHANGED <<health_alerts, wall_clock, monitor, outbox>>
    /\ UNCHANGED beside_health

\* one iteration of the loop; `raises` says whether a purge raises
cleanup_loop_iteration(raises) ==
    /\ sweeper.pc = "sleep"
    /\ LET began == [sweeper EXCEPT !.recovered = @ \/ sweeper.last = "caught"]
       IN  sweeper' = IF raises
                      THEN cleanup_caught(began)
                      ELSE [began EXCEPT !.last = "done"]
    /\ UNCHANGED <<health_alerts, wall_clock, monitor, outbox>>
    /\ UNCHANGED beside_health

\* the task of the loop is cancelled while it sleeps
cleanup_loop_cancel ==
    /\ sweeper.pc = "sleep"
    /\ sweeper' = [sweeper EXCEPT !.pc = "cancelled"]
    /\ UNCHANGED <<health_alerts, wall_clock, monitor, outbox>>
    /\ UNCHANGED beside_health

(* ---------- the system ---------- *)
\* requests, confirmations, jobs, token administration and time
NextUnattended ==
    \/ \E j \in Handlers, uid \in Actors, url \in UrlKinds, allowed, blocked \in BOOLEAN :
           \E chat \in {uid} \cup Groups :
               /\ process_download_flow(j, uid, chat, allowed, url, blocked)
               /\ UNCHANGED beside_core
    \/ \E j \in Handlers, uid \in Actors, token \in 1..minted, allowed, blocked \in BOOLEAN :
           /\ handle_download_callback(j, uid, token, allowed, blocked)
           /\ UNCHANGED beside_core
    \/ \E j \in Handlers : callback_count(j) /\ UNCHANGED beside_core
    \/ \E j \in Handlers : acquire_slot(j) /\ UNCHANGED beside_core
    \/ \E j \in Handlers : fail_before_slot(j) /\ UNCHANGED beside_core
    \/ \E j \in Handlers, outcome \in PipelineOutcomes :
           leave_slot(j, outcome) /\ UNCHANGED beside_core
    \/ \E j \in Handlers, exit \in SendOutcomes :
           finally_block(j, exit) /\ UNCHANGED beside_core
    \/ \E token \in 1..minted : drop_pending_token(token) /\ UNCHANGED beside_core
    \/ flush_pending_tokens /\ UNCHANGED beside_core
    \/ deliver_reply /\ UNCHANGED beside_core
    \/ \E d \in TimeSteps : Tick(d) /\ UNCHANGED beside_core

\* the operations that force a counter to zero: the sweeper and the admin cancel
NextReset ==
    \/ cleanup_loop /\ UNCHANGED beside_core
    \/ \E user_id \in Actors : cancel_user_downloads(user_id) /\ UNCHANGED beside_core

\* the handlers; the video cache and download_video are not looked into
Next == NextUnattended \/ NextReset

Spec == Init /\ [][Next]_vars

\* the runs in which neither the sweeper nor an administrator resets a counter
SpecUnattended == Init /\ [][NextUnattended]_vars

\* the multi-party flow alone: links posted in the group, their confirmations,
\* the jobs these start, and time; the access check, the URL checks and the
\* quota plan let every request through
NextTokens ==
    \/ \E j \in Handlers, uid \in Actors, chat \in Groups :
           /\ process_download_flow(j, uid, chat, TRUE, "ok", FALSE)
           /\ UNCHANGED beside_core
    \/ \E j \in Handlers, uid \in Actors, token \in 1..minted :
           /\ handle_download_callback(j, uid, token, TRUE, FALSE)
           /\ UNCHANGED beside_core
    \/ \E j \in Handlers : callback_count(j) /\ UNCHANGED beside_core
    \/ \E j \in Handlers : acquire_slot(j) /\ UNCHANGED beside_core
    \/ \E j \in Handlers : leave_slot(j, "returned") /\ UNCHANGED beside_core
    \/ \E j \in Handlers : finally_block(j, "success") /\ UNCHANGED beside_core
    \/ deliver_reply /\ UNCHANGED beside_core
    \/ \E d \in TimeSteps : Tick(d) /\ UNCHANGED beside_core

SpecTokens == Init /\ [][NextTokens]_vars

\* requests and confirmations that are let through, the jobs they start with
\* every way a job can end, time, and the resets of the counters
NextGranted ==
    \/ \E j \in Handlers, uid \in Actors :
           \E chat \in {uid} \cup Groups :
               /\ process_download_flow(j, uid, chat, TRUE, "ok", FALSE)
               /\ UNCHANGED beside_core
    \/ \E j \in Handlers, uid \in Actors, token \in 1..minted :
           /\ handle_download_callback(j, uid, token, TRUE, FALSE)
           /\ UNCHANGED beside_core
    \/ \E j \in Handlers : callback_count(j) /\ UNCHANGED beside_core
    \/ \E j \in Handlers : acquire_slot(j) /\ UNCHANGED beside_core
    \/ \E j \in Handlers : fail_before_slot(j) /\ UNCHANGED beside_core
    \/ \E j \in Handlers, outcome \in PipelineOutcomes :
           leave_slot(j, outcome) /\ UNCHANGED beside_core
    \/ \E j \in Handlers, exit \in SendOutcomes :
           finally_block(j, exit) /\ UNCHANGED beside_core
    \/ deliver_reply /\ UNCHANGED beside_core
    \/ \E d \in TimeSteps : Tick(d) /\ UNCHANGED beside_core
    \/ NextReset

SpecGranted == Init /\ [][NextGranted]_vars

\* requests and confirmations under every answer of the access check, the URL
\* checks and the quota plan, and the jobs they start, at one time of day
NextInputs ==
    \/ \E j \in Handlers, uid \in Actors, url \in UrlKinds, allowed, blocked \in BOOLEAN :
           \E chat \in {uid} \cup Groups :
               /\ process_download_flow(j, uid, chat, allowed, url, blocked)
               /\ UNCHANGED beside_core
    \/ \E j \in Handlers, uid \in Actors, token \in 1..minted, allowed, blocked \in BOOLEAN :
           /\ handle_download_callback(j, uid, token, allowed, blocked)
           /\ UNCHANGED beside_core
    \/ \E j \in Handlers : callback_count(j) /\ UNCHANGED beside_core
    \/ \E j \in Handlers : acquire_slot(j) /\ UNCHANGED beside_core
    \/ \E j \in Handlers : leave_slot(j, "returned") /\ UNCHANGED beside_core
    \/ \E j \in Handlers : finally_block(j, "success") /\ UNCHANGED beside_core
    \/ deliver_reply /\ UNCHANGED beside_core

SpecInputs == Init /\ [][NextInputs]_vars

\* the bridge of the admin panel, over requests that are let through and the
\* jobs they start
NextAdmin ==
    \/ \E j \in Handlers, uid \in Actors :
           \E chat \in {uid} \cup Groups :
               /\ process_download_flow(j, uid, chat, TRUE, "ok", FALSE)
               /\ UNCHANGED beside_core
    \/ \E j \in Handlers : acquire_slot(j) /\ UNCHANGED beside_core
    \/ \E j \in Handlers : leave_slot(j, "returned") /\ UNCHANGED beside_core
    \/ \E j \in Handlers : finally_block(j, "success") /\ UNCHANGED beside_core
    \/ deliver_reply /\ UNCHANGED beside_core
    \/ \E action \in AdminActions, bot_loop \in BOOLEAN :
           \E arg \in Payloads(action) :
               /\ perform_action(action, arg, bot_loop)
               /\ UNCHANGED beside_admin
    \/ runner /\ UNCHANGED beside_admin
    \/ future_timeout /\ UNCHANGED beside_admin

SpecAdmin == Init /\ [][NextAdmin]_vars

\* the sweeper over direct requests that are let through and the jobs they
\* start; nothing else removes a token, a counter entry or a stamp
NextSweeper ==
    \/ \E j \in Handlers, uid \in Actors :
           \E chat \in {uid} \cup Groups :
               /\ process_download_flow(j, uid, chat, TRUE, "ok", FALSE)
               /\ UNCHANGED beside_core
    \/ \E j \in Handlers : acquire_slot(j) /\ UNCHANGED beside_core
    \/ \E j \in Handlers : leave_slot(j, "returned") /\ UNCHANGED beside_core
    \/ \E j \in Handlers : finally_block(j, "success") /\ UNCHANGED beside_core
    \/ deliver_reply /\ UNCHANGED beside_core
    \/ \E d \in SweepSteps : Pass(d, MaxSweepTicks) /\ UNCHANGED beside_core
    \/ cleanup_loop /\ UNCHANGED beside_core

SpecSweeper == Init /\ [][NextSweeper]_vars

\* the actor who posts the links in the group
FirstActor == CHOOSE u \in Actors : \A v \in Actors : u <= v

\* links posted in a group by one actor and confirmed by any actor, with
\* direct requests of any actor beside them
NextRedeem ==
    \/ \E j \in Handlers, chat \in Groups :
           /\ process_download_flow(j, FirstActor, chat, TRUE, "ok", FALSE)
           /\ UNCHANGED beside_core
    \/ \E j \in Handlers, uid \in Actors :
           /\ process_download_flow(j, uid, uid, TRUE, "ok", FALSE)
           /\ UNCHANGED beside_core
    \/ \E j \in Handlers, uid \in Actors, token \in 1..minted :
           /\ handle_download_callback(j, uid, token, TRUE, FALSE)
           /\ UNCHANGED beside_core
    \/ \E j \in Handlers : callback_count(j) /\ UNCHANGED beside_core
    \/ \E j \in Handlers : acquire_slot(j) /\ UNCHANGED beside_core
    \/ \E j \in Handlers : leave_slot(j, "returned") /\ UNCHANGED beside_core
    \/ \E j \in Handlers : finally_block(j, "success") /\ UNCHANGED beside_core
    \/ deliver_reply /\ UNCHANGED beside_core
    \/ \E d \in TimeSteps : Tick(d) /\ UNCHANGED beside_core

SpecRedeem == Init /\ [][NextRedeem]_vars

\* direct requests that are let through, the jobs they start from the moment
\* they wait at the semaphore, and time
NextPool ==
    \/ \E j \in Handlers, uid \in Actors :
           /\ process_download_flow(j, uid, uid, TRUE, "ok", FALSE)
           /\ UNCHANGED beside_core
    \/ \E j \in Handlers : acquire_slot(j) /\ UNCHANGED beside_core
    \/ \E j \in Handlers, outcome \in PipelineOutcomes :
           leave_slot(j, outcome) /\ UNCHANGED beside_core
    \/ \E j \in Handlers, exit \in SendOutcomes :
           finally_block(j, exit) /\ UNCHANGED beside_core
    \/ deliver_reply /\ UNCHANGED beside_core
    \/ \E d \in TimeSteps : Tick(d) /\ UNCHANGED beside_core

\* the event loop runs every coroutine that is ready, the semaphore wakes its
\* waiters in the order they came, download_video ends (every subprocess is
\* killed at its timeout), and an answer is delivered
FairPool ==
    /\ \A j \in Handlers : SF_vars(acquire_slot(j) /\ UNCHANGED beside_core)
    /\ \A j \in Handlers :
           SF_vars(\E outcome \in PipelineOutcomes :
                       leave_slot(j, outcome) /\ UNCHANGED beside_core)
    /\ \A j \in Handlers :
           SF_vars(\E exit \in SendOutcomes :
                       finally_block(j, exit) /\ UNCHANGED beside_core)
    /\ WF_vars(deliver_reply /\ UNCHANGED beside_core)

SpecPool == Init /\ [][NextPool]_vars /\ FairPool

\* one refresh of the Instagram cookies after the other
NextRefresher ==
    \/ \E credentials, enabled, playwright, fresh, force, page_ok \in BOOLEAN :
           refresh(credentials, enabled, playwright, fresh, force, page_ok)
    \/ \E present \in BOOLEAN : handle_two_factor_if_needed(present)
    \/ \E ok \in BOOLEAN : wait_for_home(ok)

SpecRefresher == Init /\ [][NextRefresher]_vars

\* the steps inside a call of the cache, between its first await and its end
NextCacheInside ==
    \/ \E i \in CacheOps : fetch_check(i) /\ UNCHANGED download_call
    \/ \E i \in CacheOps : fetch_delete_entry(i) /\ UNCHANGED download_call
    \/ \E i \in CacheOps : fetch_copy(i) /\ UNCHANGED download_call
    \/ \E i \in CacheOps : store_lock(i) /\ UNCHANGED download_call
    \/ \E i \in CacheOps : store_prepare_entry_dir(i) /\ UNCHANGED download_call
    \/ \E i \in CacheOps, io_ok \in BOOLEAN :
           store_copy_begin(i, io_ok) /\ UNCHANGED download_call
    \/ \E i \in CacheOps : store_copy_end(i) /\ UNCHANGED download_call
    \/ \E i \in CacheOps : store_write_meta(i) /\ UNCHANGED download_call
    \/ \E i \in CacheOps : store_prune_if_needed(i) /\ UNCHANGED download_call

\* those steps, the return of a call, and time
NextCacheStep ==
    \/ NextCacheInside
    \/ \E i \in CacheOps : cache_return(i) /\ UNCHANGED download_call
    \/ \E d \in TimeSteps : cache_tick(d)

\* the video cache under concurrent callers
NextCache ==
    \/ \E i \in CacheOps, url \in Urls :
           fetch_read_meta(i, url) /\ UNCHANGED download_call
    \/ \E i \in CacheOps, url \in Urls :
           store_enter(i, url) /\ UNCHANGED download_call
    \/ NextCacheStep

SpecCache == Init /\ [][NextCache]_vars

\* the video cache called by one caller after the other
NextCacheSequential ==
    \/ \E i \in CacheOps, url \in Urls :
           Quiet /\ fetch_read_meta(i, url) /\ UNCHANGED download_call
    \/ \E i \in CacheOps, url \in Urls :
           Quiet /\ store_enter(i, url) /\ UNCHANGED download_call
    \/ NextCacheStep

SpecCacheSequential == Init /\ [][NextCacheSequential]_vars

\* one call of download_video after the other, over the video cache that
\* other jobs store into as well
NextAcquire ==
    \/ \E url \in Urls, enabled \in BOOLEAN : download_video(url, enabled)
    \/ try_cache_get_returns
    \/ \E outcome \in DownloadOutcomes : download_once(outcome)
    \/ maybe_store_cache_returns
    \/ \E importable, credentials, refreshed \in BOOLEAN :
           try_refresh(importable, credentials, refreshed)
    \/ download_video_ends
    \/ \E i \in CacheOps, url \in Urls : other_store(i, url)
    \/ \E i \in CacheOps : other_return(i)
    \/ NextCacheInside
    \/ \E d \in TimeSteps : cache_tick(d)

SpecAcquire == Init /\ [][NextAcquire]_vars

\* one call of _download_once after the other
NextOnce ==
    \/ \E instagram, cookies_path, direct, expect_audio, expect_video \in BOOLEAN :
           download_once_begin(instagram, cookies_path, direct,
                               expect_audio, expect_video)
    \/ \E outcome \in YtDlpOutcomes, line \in LineKinds, wrote \in BOOLEAN :
           run_yt_dlp(outcome, line, wrote)
    \/ \E ok \in BOOLEAN : instagram_fallback(ok)
    \/ \E has_audio, has_video \in BOOLEAN : ffprobe(has_audio, has_video)
    \/ \E outcome \in RefetchOutcomes, wrote \in BOOLEAN : refetch(outcome, wrote)
    \/ \E outcome \in MergeOutcomes : ffmpeg_merge(outcome)
    \/ download_once_ends

SpecOnce == Init /\ [][NextOnce]_vars

\* the alert store under any sequence of calls
NextAlerts ==
    \/ \E code \in AlertCodes, message \in 0..1 :
           alerts_record(code, message, "warning")
    \/ \E code \in AlertCodes : alerts_resolve(code)
    \/ alerts_tick

SpecAlerts == Init /\ [][NextAlerts]_vars

\* the steps of the monitor started with one of the given settings, when
\* `faults` can happen and a send ends as `transport` says, and the sweeper
NextLoops(intervals, stuck_minutes, faults, transport) ==
    \/ \E interval_setting \in intervals, stuck_minutes_setting \in stuck_minutes :
           monitor_loop(interval_setting, stuck_minutes_setting)
    \/ \E failures \in 0..MaxFailures, fault \in faults :
           check_error_spike(failures, fault)
    \/ \E pending \in 0..MaxPending, fault \in faults :
           check_pending_backlog(pending, fault)
    \/ \E available \in SlotValues, fault \in faults :
           check_queue_stuck(available, fault)
    \/ \E ok \in transport, fault \in faults : send_message(ok, fault)
    \/ monitor_cancel
    \/ cleanup_loop_start
    \/ \E raises \in BOOLEAN : cleanup_loop_iteration(raises)
    \/ cleanup_loop_cancel

\* the background loops while the metrics and the alert store work; the
\* transport of the notifications may fail
NextHealth ==
    NextLoops(IntervalSettings, StuckMinutesSettings, {"none"}, BOOLEAN)

SpecHealth == Init /\ [][NextHealth]_vars

\* the smallest of the values a setting is given
Least(settings) == CHOOSE s \in settings : \A t \in settings : s <= t

\* the background loops when the metrics and the alert store may raise; the
\* transport works, and the monitor is started with the shortest interval and
\* the shortest stuck time
NextHealthFaulty ==
    NextLoops({Least(IntervalSettings)}, {Least(StuckMinutesSettings)}, Faults, {TRUE})

SpecHealthFaulty == Init /\ [][NextHealthFaulty]_vars

(* ---------- properties: the global slot pool ---------- *)
\* the handlers inside `async with global_download_semaphore:`
InPipeline == {j \in Handlers : jobs[j].pc = "running"}
\* the admitted jobs of an actor that have not reached the end of `finally:`
Unfinished(u) == {j \in Handlers : jobs[j].acquired /\ jobs[j].uid = u}

\* C1: the number of jobs executing the acquisition pipeline at once never
\* exceeds the global slot count, however many jobs are admitted and waiting.
C1_PipelineBounded == Cardinality(InPipeline) <= MAX_GLOBAL_CONCURRENT_DOWNLOADS

\* every slot is taken while another admitted job waits for one
C1_Witness ==
    /\ Cardinality(InPipeline) = MAX_GLOBAL_CONCURRENT_DOWNLOADS
    /\ \E j \in Handlers : jobs[j].pc = "wait_slot"

\* C2: in_use + available = max_slots in every state, in_use being exactly the
\* number of jobs inside the guarded block: every acquire is paired with one
\* release, also when the guarded body raises.
C2_PoolBalanced ==
    /\ in_use + semaphore_value = MAX_GLOBAL_CONCURRENT_DOWNLOADS
    /\ in_use = Cardinality(InPipeline)

\* a guarded body has raised DownloadError and its slot is free again
C2_Witness ==
    /\ \E j \in Handlers : jobs[j].pc = After("DownloadError")
    /\ InPipeline = {}
    /\ semaphore_value = MAX_GLOBAL_CONCURRENT_DOWNLOADS

(* ---------- properties: the per-actor counter ---------- *)
\* C3: no actor's active count is ever negative, whatever the interleaving of
\* admissions, releases, admin cancels and sweeper resets.
C3_ActiveNonNegative ==
    \A u \in DOMAIN user_active_downloads : user_active_downloads[u] >= 0

\* a job is about to run its `finally:` although its actor's counter was
\* already forced to zero: the release it performs meets the floor
C3_Witness ==
    \E j \in Handlers :
        /\ jobs[j].acquired
        /\ jobs[j].pc \in {After(o) : o \in PipelineOutcomes}
        /\ jobs[j].uid \in DOMAIN user_active_downloads
        /\ user_active_downloads[jobs[j].uid] = 0

(* ---------- properties: pending tokens ---------- *)
\* a confirmation of the token has answered in this step
ConfirmAnswered(token) ==
    /\ reply = NoReply
    /\ reply'.source = "callback"
    /\ reply'.token = token

\* C4: for any token at most one confirmation ever gets past the lookup; a
\* confirmation of a token that was confirmed before answers "not found",
\* starts no job and touches no counter or limiter.
C4_SingleShot ==
    /\ [](\A t \in 1..MaxTokens : redeemed[t] <= 1)
    /\ [][\A t \in 1..minted :
             (redeemed[t] >= 1 /\ ConfirmAnswered(t))
             => /\ reply'.result = "missing"
                /\ UNCHANGED <<jobs, redeemed, user_active_downloads,
                               user_last_request_ts, chat_last_callback_ts,
                               global_callback_events, semaphore_value>>]_vars

\* a second confirmation of a token has just answered "not found"
C4_Witness ==
    /\ reply.source = "callback"
    /\ reply.result = "missing"
    /\ redeemed[reply.token] = 1

\* C5: a token older than PENDING_TOKEN_TTL that is still in the store is
\* never redeemed: no step takes a confirmation of it past the age check, and
\* a confirmation of it answers "expired", starts no job, increments no
\* counter, acquires no slot, and removes the token.
C5_ExpiredNeverRedeemed ==
    [][\A t \in DOMAIN pending_downloads :
          clock - pending_downloads[t].ts > PENDING_TOKEN_TTL
          => /\ redeemed'[t] = redeemed[t]
             /\ ConfirmAnswered(t)
                => /\ reply'.result = "expired"
                   /\ t \notin DOMAIN pending_downloads'
                   /\ UNCHANGED <<jobs, user_active_downloads,
                                  user_last_request_ts, semaphore_value>>]_vars

\* an over-age token the sweeper had not removed has just been refused
C5_Witness ==
    /\ reply.source = "callback"
    /\ reply.result = "expired"
    /\ redeemed[reply.token] = 0
    /\ reply.token \notin DOMAIN pending_downloads

(* ---------- properties: admission ---------- *)
\* C6: an actor at or above MAX_CONCURRENT_PER_USER is not admitted, so that,
\* in runs without admin cancel or sweeper reset, no actor ever has more than
\* MAX_CONCURRENT_PER_USER admitted-but-unfinished jobs.
C6_PerActorCap ==
    \A u \in Actors : Cardinality(Unfinished(u)) <= MAX_CONCURRENT_PER_USER

\* C7: every admitted job increments its actor's counter exactly once at
\* admission and decrements it exactly once at its end, so that, in runs
\* without admin cancel or sweeper reset, the counter of an actor equals the
\* number of its admitted-but-unfinished jobs (and is 0 once all have ended).
C7_CountMatchesJobs ==
    \A u \in Actors :
        Get(user_active_downloads, u, 0) = Cardinality(Unfinished(u))

\* the four denial conditions of a confirmation, each stated on its own
\* (a) the room's confirm cooldown has not elapsed
RoomCooldownHolds(chat_id, now) ==
    /\ chat_id \in DOMAIN chat_last_callback_ts
    /\ now - chat_last_callback_ts[chat_id] < CALLBACK_CHAT_COOLDOWN_SECONDS
\* (b) the window already holds the maximum of events not older than the window
GlobalCapHolds(now) ==
    Cardinality({i \in 1..Len(global_callback_events) :
                    now - global_callback_events[i] <= CALLBACK_GLOBAL_WINDOW_SECONDS})
        >= CALLBACK_GLOBAL_MAX_CALLS
\* (c) the actor is at or above the maximum of parallel jobs
ActorCapHolds(uid) ==
    Get(user_active_downloads, uid, 0) >= MAX_CONCURRENT_PER_USER
\* (d) the actor's cooldown since the last accepted request has not elapsed
ActorCooldownHolds(uid, now) ==
    /\ uid \in DOMAIN user_last_request_ts
    /\ now - user_last_request_ts[uid] < USER_COOLDOWN_SECONDS
\* the first denial that applies in the order (a), (b), (c), (d)
FirstDenial(uid, chat_id, now) ==
    IF RoomCooldownHolds(chat_id, now) THEN "chat_rate_limited"
    ELSE IF GlobalCapHolds(now) THEN "global_rate_limited"
    ELSE IF ActorCapHolds(uid) THEN "active_limit"
    ELSE IF ActorCooldownHolds(uid, now) THEN "cooldown"
    ELSE "none"

PassesWithin(t) ==
    {i \in 1..Len(rate_passes) :
        rate_passes[i] <= t /\ t - rate_passes[i] <= CALLBACK_GLOBAL_WINDOW_SECONDS}

\* the windows [t - window, t] that begin at a pass: a window holding more
\* passes than the cap contains such a window holding as many
WindowEnds ==
    {rate_passes[i] + CALLBACK_GLOBAL_WINDOW_SECONDS : i \in 1..Len(rate_passes)}

\* C10: the global event window never holds more than CALLBACK_GLOBAL_MAX_CALLS
\* events, at most that many confirmations pass the global rate check within
\* any [t - window, t], and an event is evicted only once it is older than the
\* window (every event the window lost is older than the window at the time of
\* the latest check).
C10_GlobalWindowCap ==
    /\ Len(global_callback_events) <= CALLBACK_GLOBAL_MAX_CALLS
    /\ \A t \in WindowEnds :
           Cardinality(PassesWithin(t)) <= CALLBACK_GLOBAL_MAX_CALLS
    /\ \A i \in 1..Len(rate_passes) :
           (\A k \in 1..Len(global_callback_events) :
                global_callback_events[k] # rate_passes[i])
           => \E k \in 1..Len(global_callback_events) :
                global_callback_events[k] - rate_passes[i]
                    > CALLBACK_GLOBAL_WINDOW_SECONDS

\* the window is full and a confirmation has just been denied for it
C10_Witness ==
    /\ reply.source = "callback"
    /\ reply.result = "global_rate_limited"
    /\ Len(global_callback_events) = CALLBACK_GLOBAL_MAX_CALLS
    /\ Len(rate_passes) = CALLBACK_GLOBAL_MAX_CALLS

(* ---------- properties: quota verdict and group requests ---------- *)
\* what every step of a handler of `uid` in slot j shows afterwards: its answer,
\* or its job.  These guards only save evaluating a handler's action on the
\* steps that cannot be one of it.
Answers(uid, source) == reply'.source = source /\ reply'.uid = uid
Starts(j, uid) == reply' = NoReply /\ jobs'[j].pc # "idle" /\ jobs'[j].uid = uid
MayBeRequest(j, uid, chat) == Answers(uid, ContextSource(chat)) \/ Starts(j, uid)
MayBeConfirm(j, uid, token) ==
    (Answers(uid, "callback") /\ reply'.token = token) \/ Starts(j, uid)

\* the step admits nothing: no counter, stamp, slot, job or new token
NothingAdmitted ==
    /\ UNCHANGED <<user_active_downloads, user_last_request_ts, semaphore_value,
                   jobs, minted>>
    /\ DOMAIN pending_downloads' \subseteq DOMAIN pending_downloads

\* C11: a direct request or a confirmation whose quota plan says "blocked"
\* never admits: the actor's counter and stamp are unchanged, no token is
\* minted, no slot is acquired and no job (hence no pipeline run) is started.
\* (A step that admits nothing needs no look at what it is a step of.)
C11_BlockedNeverAdmits ==
    [][NothingAdmitted \/
       \A j \in Handlers : Startable(j) =>
          \A uid \in Actors :
              /\ \A chat \in {uid} \cup Groups : MayBeRequest(j, uid, chat) =>
                     \A url \in UrlKinds, allowed \in BOOLEAN :
                         ~process_download_flow(j, uid, chat, allowed, url, TRUE)
              /\ \A token \in 1..minted : MayBeConfirm(j, uid, token) =>
                     \A allowed \in BOOLEAN :
                         ~handle_download_callback(j, uid, token, allowed, TRUE)
       ]_vars

\* a request was refused because the quota plan says "blocked"
C11_Witness ==
    /\ reply.result = "quota_blocked"
    /\ reply.uid \notin DOMAIN user_active_downloads
    /\ reply.uid \notin DOMAIN user_last_request_ts

\* C12: a request in a group chat never admits, and when it is accepted it
\* only mints: exactly one new, never used token carrying the URL, the
\* initiator and the issue time enters the pending map, while the counters,
\* the stamps, the slot pool and the jobs stay as they were.  (A step that
\* admits nothing and leaves the pending map alone is a denial at most.)
C12_GroupOnlyMints ==
    [][(NothingAdmitted /\ pending_downloads' = pending_downloads) \/
       \A j \in Handlers : Startable(j) =>
          \A uid \in Actors, chat \in Groups : MayBeRequest(j, uid, chat) =>
              \A allowed, blocked \in BOOLEAN, url \in UrlKinds :
                  process_download_flow(j, uid, chat, allowed, url, blocked)
                  => /\ UNCHANGED <<user_active_downloads, user_last_request_ts,
                                    semaphore_value, jobs, chat_last_callback_ts,
                                    global_callback_events>>
                     /\ reply'.result = "minted"
                     /\ LET t == reply'.token
                        IN  /\ t \notin 1..minted
                            /\ DOMAIN pending_downloads' =
                                   DOMAIN pending_downloads \cup {t}
                            /\ \A k \in DOMAIN pending_downloads :
                                   pending_downloads'[k] = pending_downloads[k]
                            /\ pending_downloads'[t].url = url
                            /\ pending_downloads'[t].initiator_id = uid
                            /\ pending_downloads'[t].ts = clock
       ]_vars

\* a group request has just minted a token while its actor has no job
C12_Witness ==
    /\ reply.source = "group"
    /\ reply.result = "minted"
    /\ reply.token \in DOMAIN pending_downloads
    /\ pending_downloads[reply.token].initiator_id = reply.uid
    /\ Unfinished(reply.uid) = {}

(* ---------- properties: the video cache ---------- *)
\* the URLs whose entry has readable metadata
Readable == {u \in Urls : ReadableMeta(cache_entries[u])}
\* the stores that hold the lock and have prepared their entry directory
Writing == {i \in CacheOps : cache_ops[i].pc \in {"s_copy", "s_copying", "s_meta"}}

\* C13: a lookup that runs while a store of the same URL is in progress
\* misses or returns the complete artifact of one whole store (the one whose
\* metadata it read), and never deletes the directory the store is writing;
\* what stores leave behind is the entry of one whole store.
C13_LookupDuringStore ==
    /\ \A i \in CacheOps : cache_ops[i].pc = "f_hit" =>
           /\ cache_ops[i].got_whole
           /\ cache_ops[i].got_v = cache_ops[i].meta_v
    /\ \A i \in Writing : cache_entries[cache_ops[i].url].dir
    /\ cache_lock = 0 =>
           \A u \in Readable : /\ cache_entries[u].whole
                               /\ cache_entries[u].file = cache_entries[u].meta_v

\* C14: in a sequential run, a store followed at once by a lookup of the same
\* URL within the TTL returns a copy holding the stored artifact, whole, and
\* the cache keeps its own copy.
C14_RoundTrip ==
    \A i \in CacheOps :
        LET op == cache_ops[i]
        IN  (/\ op.pc \in {"f_miss", "f_hit", "f_raised"}
             /\ cache_last_store.url = op.url
             /\ clock - cache_last_store.at <= ttl_seconds)
            => /\ op.pc = "f_hit"
               /\ op.got_v = cache_last_store.v
               /\ op.got_whole
               /\ cache_entries[op.url].file = cache_last_store.v
               /\ cache_entries[op.url].whole

\* a lookup right after a store of the same URL has returned that artifact
C14_Witness ==
    \E i \in CacheOps :
        /\ cache_ops[i].pc = "f_hit"
        /\ cache_last_store.url = cache_ops[i].url
        /\ cache_ops[i].got_v = cache_last_store.v

\* C15: when no store is in progress the cache holds at most max_items
\* entries; the pruning at the end of a store keeps exactly the max_items
\* entries with the greatest stored_at, unchanged, and deletes every other
\* directory; a lookup hit changes no entry (so neither its stored_at).
C15_PruneByStorageTime ==
    /\ [](cache_lock = 0 => Cardinality(Readable) <= max_items)
    /\ [][\A i \in CacheOps :
             /\ store_prune_if_needed(i) =>
                    LET before == Readable
                        after == {u \in Urls : ReadableMeta(cache_entries'[u])}
                    IN  /\ after \subseteq before
                        /\ Cardinality(after) =
                               IF Cardinality(before) < max_items
                               THEN Cardinality(before) ELSE max_items
                        /\ \A a \in after, b \in before \ after :
                               cache_entries[a].stored_at >= cache_entries[b].stored_at
                        /\ \A a \in after : cache_entries'[a] = cache_entries[a]
                        /\ \A u \in Urls \ after : ~cache_entries'[u].dir
             /\ fetch_copy(i) => cache_entries' = cache_entries
       ]_vars

\* a store has ended and the entry of another URL is gone, although a lookup
\* that has not returned yet hit it
C15_Witness ==
    \E i, k \in CacheOps :
        /\ cache_ops[i].pc = "s_done"
        /\ ReadableMeta(cache_entries[cache_ops[i].url])
        /\ cache_ops[k].pc = "f_hit"
        /\ cache_ops[k].url # cache_ops[i].url
        /\ ~cache_entries[cache_ops[k].url].dir

\* C16: a lookup that finds the entry older than ttl deletes it and misses,
\* leaving nothing a second lookup could hit; a lookup never deletes an entry
\* that is within ttl.
C16_LookupDeletesOnlyExpired ==
    [][\A i \in CacheOps :
          LET op == cache_ops[i]
              e == cache_entries[op.url]
          IN  /\ (fetch_check(i) /\ is_expired(op.meta_at))
                  => cache_ops'[i].pc = "f_delete"
              /\ fetch_delete_entry(i)
                  => /\ cache_ops'[i].pc = "f_miss"
                     /\ ~ReadableMeta(cache_entries'[op.url])
                     /\ ~(ReadableMeta(e) /\ ~is_expired(e.stored_at))
       ]_vars

(* ---------- properties: download_video ---------- *)
\* the positions of a store between its entry and its end
StorePcs == {"s_lock", "s_prepare", "s_copy", "s_copying", "s_meta", "s_prune",
             "s_done", "s_failed"}
\* the call has ended: its caller has a path or an exception
Over == download_call.pc \in {"returned", "raised"}

\* C17: on a cache hit download_video returns the cached copy: _download_once
\* (extraction tool, stream probe, platform fallback) and the cookie refresher
\* are never invoked, store_copy is never called, and the lookup that hit
\* changed nothing in the cache.
C17_HitReturnsAtOnce ==
    /\ [](download_call.cached =>
             /\ download_call.pc = "returned"
             /\ download_call.result = "cached"
             /\ download_call.tool_log = <<>>
             /\ download_call.refreshes = 0
             /\ download_call.stores = 0
             /\ cache_ops[CallerOp].pc = "idle")
    /\ [][(/\ cache_ops'[CallerOp] # cache_ops[CallerOp]
            /\ cache_ops'[CallerOp].pc \in {"f_check", "f_copy", "f_hit"})
           => cache_entries' = cache_entries]_vars

\* a call has returned the cached copy of an entry that is still there
C17_Witness ==
    /\ download_call.cached
    /\ download_call.pc = "returned"
    /\ ReadableMeta(cache_entries[download_call.url])

C19_StoreOnlyAfterSuccess ==
    /\ download_call.stores <= 1
    /\ download_call.stores = 1 =>
           /\ download_call.tool_log # <<>>
           /\ Last(download_call.tool_log) = "ok"
    /\ cache_ops[CallerOp].pc \in StorePcs =>
           /\ download_call.pc = "store_cache"
           /\ download_call.stores = 1
           /\ cache_ops[CallerOp].url = download_call.url
    /\ download_call.result = "DownloadError" => download_call.stores = 0

\* a call whose first attempt failed and whose second succeeded has stored
\* once, and the entry of its URL is the artifact of that store
C19_Witness ==
    /\ download_call.pc = "returned"
    /\ Len(download_call.tool_log) = 2
    /\ download_call.stores = 1
    /\ cache_entries[download_call.url].meta_v = cache_stores

\* C20: one call makes at most two attempts and forces at most one cookie
\* refresh; the failure of the second attempt is raised to the caller as it
\* is, with no refresh and no attempt after it.
C20_BoundedRetry ==
    /\ [](Len(download_call.tool_log) <= 2)
    /\ [](download_call.refreshes <= 1)
    /\ [][(download_call.pc = "try_refresh" /\ Len(download_call.tool_log) = 2
            /\ download_call' # download_call)
           => /\ download_call'.pc = "raised"
              /\ download_call'.result = "DownloadError"
              /\ download_call'.raised = 1
              /\ download_call'.refreshes = download_call.refreshes
              /\ download_call'.tool_log = download_call.tool_log]_vars

\* both attempts at an Instagram link failed for restricted content: one
\* refresh was forced in between and the second failure was raised
C20_Witness ==
    /\ download_call.pc = "raised"
    /\ IsInstagram(download_call.url)
    /\ download_call.tool_log = <<"restricted", "restricted">>
    /\ download_call.refreshes = 1
    /\ download_call.raised = 1

\* C21: after a failed attempt the cookie refresh is forced exactly when the
\* URL is an Instagram link, the error text carries a restricted-content
\* marker, the attempt is the first, and the refresher is there with its
\* credentials; the attempt is repeated only after such a refresh, and only if
\* it refreshed.  In every other case the failure is raised with no refresh
\* and no further attempt.
C21_RefreshOnlyWhenAttributable ==
    [][download_call.pc # "try_refresh" \/
       \A importable, credentials, refreshed \in BOOLEAN :
          try_refresh(importable, credentials, refreshed) =>
             LET attributable ==
                    /\ IsInstagram(download_call.url)
                    /\ Last(download_call.tool_log) = "restricted"
                    /\ Len(download_call.tool_log) = 1
                    /\ importable /\ credentials
             IN  /\ download_call'.refreshes =
                        download_call.refreshes + (IF attributable THEN 1 ELSE 0)
                 /\ IF attributable /\ refreshed
                    THEN /\ download_call'.pc = "download_once"
                         /\ download_call'.attempt = 1
                    ELSE /\ download_call'.pc = "raised"
                         /\ download_call'.result = "DownloadError"
                         /\ download_call'.raised = download_call.attempt
                 /\ download_call'.tool_log = download_call.tool_log
      ]_vars

\* the first attempt at an Instagram link failed with another error text: it
\* was raised with no refresh and no second attempt
C21_Witness ==
    /\ download_call.pc = "raised"
    /\ IsInstagram(download_call.url)
    /\ download_call.tool_log = <<"failed">>
    /\ download_call.refreshes = 0
    /\ download_call.raised = 0

(* ---------- properties: _download_once ---------- *)
\* the runs of `tool` the call has made so far
Runs(tool) == {k \in DOMAIN once.invoked : once.invoked[k][1] = tool}
\* the call has ended
OnceOver == once.pc \in {"returned", "raised"}
\* the probe has reported video without audio to a call that expects audio
VideoOnly ==
    /\ Runs("ffprobe") # {}
    /\ once.has_video /\ ~once.has_audio /\ once.expect_audio

Probed == Runs("ffprobe") # {}
\* the call is in the branch that fetches `stream` alone and merges: it is about
\* to run the tool for that stream, or it has run it (once, and never for the
\* other stream); ffmpeg runs only after that run succeeded, and the call does
\* not end after such a run without ffmpeg, unless the run left no file
Remuxing(stream, other) ==
    /\ Runs(other) = {}
    /\ IF once.pc = "refetch"
       THEN once.fetching = stream /\ Runs(stream) = {} /\ Runs("ffmpeg") = {}
       ELSE LET how == once.invoked[CHOOSE k \in Runs(stream) : TRUE][2]
            IN  /\ Cardinality(Runs(stream)) = 1
                /\ Runs("ffmpeg") # {} => how = "exit_0"
                /\ (OnceOver /\ how = "exit_0"
                      /\ once.error # <<"second file not found">>)
                     => Runs("ffmpeg") # {}

\* C23: for every probe result and every pair of expected streams, the branch
\* after the probe is: every expected stream present, the downloaded file is
\* returned and no tool runs after the probe; only the audio missing and the
\* video present, the audio is fetched alone and merged; only the video missing
\* and the audio present, the video is fetched alone and merged; in every other
\* case the call raises the unrecognized-output error and no tool runs after
\* the probe.
C23_DecisionTable ==
    Probed =>
        LET audio_ok == once.expect_audio => once.has_audio
            video_ok == once.expect_video => once.has_video
            probe_last == once.invoked[Len(once.invoked)][1] = "ffprobe"
        IN  CASE audio_ok /\ video_ok ->
                   /\ once.pc = "returned" /\ once.result = "downloaded"
                   /\ probe_last
              [] ~audio_ok /\ video_ok /\ once.has_video -> Remuxing("audio", "video")
              [] ~video_ok /\ audio_ok /\ once.has_audio -> Remuxing("video", "audio")
              [] OTHER ->
                   /\ once.pc = "raised" /\ once.error = <<"unrecognized">>
                   /\ probe_last

\* a call whose file had the audio only: it fetched the video and merged
C23_Witness ==
    /\ Probed
    /\ once.has_audio /\ ~once.has_video /\ once.expect_audio /\ once.expect_video
    /\ once.pc = "returned" /\ once.result = "merged"
    /\ Runs("video") # {} /\ Runs("ffmpeg") # {}

\* C24: instagram_direct is called only after a non-zero exit of yt-dlp, for a
\* URL of instagram.com, when the last line of stderr holds a restricted-content
\* phrase and a cookie file is configured; when it succeeds the call returns its
\* file; when it fails the call raises one DownloadError whose message holds
\* both the last line of yt-dlp and the failure of the fallback.
C24_FallbackGate ==
    /\ (once.pc = "fallback" \/ Runs("instagram_direct") # {}) =>
          /\ once.invoked[1] = <<"yt-dlp", "exit_nonzero">>
          /\ once.instagram
          /\ once.last_line = "restricted"
          /\ once.cookies_path
          /\ Cardinality(Runs("instagram_direct")) <= 1
    /\ \A k \in Runs("instagram_direct") :
          /\ k = Len(once.invoked)
          /\ IF once.invoked[k][2] = "ok"
             THEN once.pc = "returned" /\ once.result = "fallback"
             ELSE /\ once.pc = "raised"
                  /\ once.error = <<"yt-dlp", once.last_line, "fallback failed">>

\* a call whose fallback failed
C24_Witness ==
    /\ once.pc = "raised"
    /\ once.invoked = <<(<<"yt-dlp", "exit_nonzero">>), (<<"instagram_direct", "failed">>)>>
    /\ once.error = <<"yt-dlp", "restricted", "fallback failed">>

(* ---------- properties: the alert store ---------- *)
\* the ids of the rows of `rows` that are open under the code `code`
OpenUnder(rows, code) ==
    {k \in DOMAIN rows : rows[k].code = code /\ rows[k].status = "open"}
\* the stored form of the codes callers pass
StoredCodes == {"errors.spike", "queue.backlog", "queue.stuck"}
\* the tables differ at most in the row `id`
SameBut(id) ==
    /\ Len(health_alerts') = Len(health_alerts)
    /\ \A k \in DOMAIN health_alerts : k # id => health_alerts'[k] = health_alerts[k]

\* what a call record_alert(code, message) does to the table
RecordStep(code, message) ==
    LET stored == IF code = " Errors.Spike " THEN "errors.spike" ELSE code
        open == OpenUnder(health_alerts, stored)
    IN  IF open # {}
        THEN \E id \in open :
                /\ SameBut(id)
                /\ health_alerts'[id] = [health_alerts[id] EXCEPT
                                            !.message = message,
                                            !.updated_at = wall_clock]
        ELSE /\ Len(health_alerts') = Len(health_alerts) + 1
             /\ \A k \in DOMAIN health_alerts : health_alerts'[k] = health_alerts[k]
             /\ OpenUnder(health_alerts', stored) = {Len(health_alerts')}
\* what a call resolve_alert(code) does to the table
ResolveStep(code) ==
    LET stored == IF code = " Errors.Spike " THEN "errors.spike" ELSE code
        open == OpenUnder(health_alerts, stored)
    IN  IF open = {}
        THEN health_alerts' = health_alerts
        ELSE \E id \in open :
                /\ SameBut(id)
                /\ health_alerts'[id] = [health_alerts[id] EXCEPT
                                            !.status = "resolved",
                                            !.resolved_at = wall_clock,
                                            !.updated_at = wall_clock]
                /\ health_alerts'[id].resolved_at # -1

\* C25: under every sequence of record_alert and resolve_alert calls the table
\* holds at most one open row per code; record_alert for a code that has an
\* open row changes the message of that row and adds no row (and adds one open
\* row otherwise); resolve_alert turns the open row of the code into a resolved
\* row with resolved_at set, and changes nothing when the code has no open row.
C25_OneOpenPerCode ==
    /\ [](\A code \in StoredCodes : Cardinality(OpenUnder(health_alerts, code)) <= 1)
    /\ [][/\ \A code \in AlertCodes, message \in 0..1 :
                alerts_record(code, message, "warning") => RecordStep(code, message)
          /\ \A code \in AlertCodes :
                alerts_resolve(code) => ResolveStep(code)
         ]_vars

\* an alert that was raised, resolved, raised again and then raised once more
\* with another message
C25_Witness ==
    /\ Len(health_alerts) = 2
    /\ health_alerts[1].code = "errors.spike" /\ health_alerts[2].code = "errors.spike"
    /\ health_alerts[1].status = "resolved" /\ health_alerts[1].resolved_at > 0
    /\ health_alerts[2].status = "open"
    /\ health_alerts[2].updated_at > health_alerts[2].created_at
    /\ health_alerts[2].message = 1

(* ---------- properties: the health monitor ---------- *)
\* the alert `code` is open
IsOpen(code) == OpenUnder(health_alerts, code) # {}
\* the alert `code` has been raised at some time
EverRaised(code) == \E k \in DOMAIN health_alerts : health_alerts[k].code = code

StuckAlert == health_alerts[CHOOSE k \in OpenUnder(health_alerts, "queue.stuck") : TRUE]

\* C27: queue.stuck is open only when the samples have been saturated without
\* a break for at least the configured number of minutes: the unbroken run of
\* saturated samples began at least stuck_seconds_required before the sample
\* that raised the alert, whatever the interval and the number of minutes are;
\* and after a sample that is not saturated the accumulated duration is 0 and
\* queue.stuck is not open.
C27_StuckOnlySustained ==
    /\ IsOpen("queue.stuck") =>
          /\ monitor.saturated_since # -1
          /\ StuckAlert.created_at - monitor.saturated_since
                >= monitor.stuck_seconds_required
    /\ (monitor.saturated_since = -1 /\ monitor.pc \in {"sleep", "cancelled"}) =>
          /\ monitor.stuck_duration = 0
          /\ ~IsOpen("queue.stuck")

\* C28: for every alert code and every recipient, two notifications of that
\* code are never sent less than the cooldown apart, also when they belong to
\* two rows of the code, the second raised after the first was resolved.
C28_CooldownPerCode ==
    \A i, j \in DOMAIN outbox :
        (/\ i < j
         /\ outbox[i].code = outbox[j].code
         /\ outbox[i].chat_id = outbox[j].chat_id)
            => outbox[j].at - outbox[i].at >= cooldown_seconds

\* the table but for the notification stamps of its rows
Bookkeeping(rows) ==
    [k \in DOMAIN rows |-> [rows[k] EXCEPT !.last_notified_at = -1, !.updated_at = -1]]

\* C29: whether bot.send_message succeeds or fails for a recipient, the step
\* leaves status, message and resolution of every alert as they are and stamps
\* the row exactly as a successful send would; the send is recorded, the
\* recipients not yet tried remain to be tried, and after the last recipient
\* the iteration goes on with the check that follows.
C29_TransportFailureHarmless ==
    [][monitor.pc = "notify" =>
         LET chat_id == CHOOSE c \in monitor.todo : \A d \in monitor.todo : c <= d
             rest == monitor.todo \ {chat_id}
         IN  /\ Bookkeeping(health_alerts') = Bookkeeping(health_alerts)
             /\ \/ UNCHANGED <<health_alerts, monitor, outbox>>
                \/ monitor'.pc = "cancelled" /\ outbox' = outbox
                \/ /\ Len(outbox') = Len(outbox) + 1
                   /\ outbox'[Len(outbox')].chat_id = chat_id
                   /\ monitor'.todo = rest
                   /\ IF rest # {}
                      THEN monitor'.pc = "notify" /\ health_alerts' = health_alerts
                      ELSE /\ monitor'.pc = monitor.resume
                           /\ monitor'.pc \in {"pending_backlog", "queue_stuck", "sleep"}
                           /\ health_alerts' = [health_alerts EXCEPT
                                   ![monitor.alert].last_notified_at = wall_clock,
                                   ![monitor.alert].updated_at = wall_clock]
    ]_vars

\* no recipient of the last notification could be reached, and the iteration
\* has run its remaining checks: the alert is open and the loop sleeps
C29_Witness ==
    /\ monitor.failed = Recipients
    /\ monitor.pc = "sleep"
    /\ IsOpen("errors.spike")
    /\ \E k \in DOMAIN outbox : outbox[k].code = "errors.spike"
    /\ Len(outbox) = NumRecipients

(* ---------- properties: the background loops ---------- *)
\* the places of a running monitor_loop
MonitorRuns == {"sleep", "pending_backlog", "queue_stuck", "notify"}

\* C30: when the read of the metrics, a call of the alert store or a check
\* raises inside an iteration of monitor_loop, the loop is back at its sleep
\* and has not ended; the loop leaves its places only by a cancellation, which
\* reaches it while it awaits; and the same holds for _cleanup_loop.
C30_LoopsSurviveExceptions ==
    [][/\ monitor.pc \in MonitorRuns =>
             \/ monitor'.pc \in MonitorRuns
             \/ /\ monitor.pc \in {"sleep", "notify"}
                /\ monitor' = [monitor EXCEPT !.pc = "cancelled"]
       /\ (monitor'.caught /\ monitor' # monitor) =>
             \/ monitor'.pc = "sleep" /\ monitor'.iterations <= MaxSamples
             \/ monitor'.pc = "cancelled" /\ monitor.caught
       /\ sweeper.pc = "sleep" =>
             \/ sweeper'.pc = "sleep"
             \/ sweeper' = [sweeper EXCEPT !.pc = "cancelled"]
       /\ (sweeper'.last = "caught" /\ sweeper' # sweeper) =>
             \/ sweeper'.pc = "sleep"
             \/ sweeper'.pc = "cancelled" /\ sweeper.last = "caught"
      ]_vars

\* both loops have caught an exception and begun another iteration; the
\* monitor read its metrics in it and goes on with its checks
C30_Witness ==
    /\ monitor.recovered /\ ~monitor.caught /\ monitor.pc = "pending_backlog"
    /\ sweeper.recovered /\ sweeper.last = "done" /\ sweeper.pc = "sleep"

(* ---------- properties: the administrative operations ---------- *)
\* the verdicts a request of the actor can get in the state at hand
VerdictsFor(u) ==
    {DirectVerdict(u, chat, allowed, url, blocked) :
         chat \in {u} \cup Groups, allowed \in BOOLEAN, url \in UrlKinds,
         blocked \in BOOLEAN}

\* C31: a cancel for an actor who has a counter entry sets the actor's counter
\* to 0 and removes the last-request stamp, so that no request of the actor made
\* in the state it leaves is denied for the cap or the cooldown; the semaphore,
\* the other actors' counters and stamps, the pending tokens and the jobs
\* (with the slots they hold) are as before; and no counter is ever below 0,
\* whatever a job admitted before the cancel releases later.
C31_CancelResetsOneActor ==
    /\ [](\A u \in DOMAIN user_active_downloads : user_active_downloads[u] >= 0)
    /\ [][\A u \in Actors :
             (u \in DOMAIN user_active_downloads /\ cancel_user_downloads(u)) =>
                 /\ user_active_downloads'[u] = 0
                 /\ u \notin DOMAIN user_last_request_ts'
                 /\ VerdictsFor(u)' \cap {"active_limit", "cooldown"} = {}
                 /\ \A v \in Actors \ {u} :
                        /\ Get(user_active_downloads', v, -1)
                               = Get(user_active_downloads, v, -1)
                        /\ Get(user_last_request_ts', v, -1)
                               = Get(user_last_request_ts, v, -1)
                 /\ UNCHANGED <<semaphore_value, pending_downloads, jobs>>
      ]_vars

\* an actor's job is inside the pipeline, holding the slot, while the actor's
\* counter is 0 and the stamp is gone, and no time has passed for the sweeper
\* to have done it: the actor was cancelled with the job in flight
C31_Witness ==
    \E j \in Handlers :
        /\ jobs[j].pc = "running"
        /\ jobs[j].acquired
        /\ semaphore_value = MAX_GLOBAL_CONCURRENT_DOWNLOADS - 1
        /\ Get(user_active_downloads, jobs[j].uid, -1) = 0
        /\ jobs[j].uid \notin DOMAIN user_last_request_ts
        /\ ticks = 0

\* the step in which a function of admin_runtime was called for the action
\* with the field and its value was handed to the caller
Reported(action, arg) ==
    /\ admin' # admin
    /\ admin'.pc = "returned"
    /\ admin'.action = action
    /\ admin'.arg = arg
    /\ admin'.result.status = "ok"

\* the admission state of the actors
ActorState == <<user_active_downloads, user_last_request_ts>>

\* C32: cancel_user_downloads for an actor without a counter entry returns
\* False and changes nothing, and returns True for an actor with one;
\* drop_pending_token returns True exactly when the token was pending and
\* removes that token and no other; flush_pending_tokens returns the number of
\* pending tokens and empties the map; get_runtime_snapshot changes nothing;
\* none of them changes the semaphore or a job, cancel leaves the tokens and
\* drop and flush leave the actors' counters and stamps as they were.
C32_AdminOpsReport ==
    [][/\ \A u \in Actors : Reported("cancel_user", u) =>
              /\ admin'.result.flag = (u \in DOMAIN user_active_downloads)
              /\ ~admin'.result.flag => UNCHANGED core_vars
              /\ UNCHANGED <<pending_downloads, semaphore_value, jobs>>
       /\ \A token \in 1..MaxTokens : Reported("drop_token", token) =>
              /\ admin'.result.flag = (token \in DOMAIN pending_downloads)
              /\ DOMAIN pending_downloads' = DOMAIN pending_downloads \ {token}
              /\ \A t \in DOMAIN pending_downloads' :
                     pending_downloads'[t] = pending_downloads[t]
              /\ UNCHANGED <<ActorState, semaphore_value, jobs>>
       /\ Reported("flush_tokens", 0) =>
              /\ admin'.result.count = Cardinality(DOMAIN pending_downloads)
              /\ DOMAIN pending_downloads' = {}
              /\ UNCHANGED <<ActorState, semaphore_value, jobs>>
       /\ Reported("snapshot", 0) => UNCHANGED core_vars
      ]_vars

\* a drop has reported True and the other token is still pending, while a job
\* holds the slot
C32_Witness ==
    /\ admin.pc = "returned"
    /\ admin.action = "drop_token"
    /\ admin.result.flag
    /\ DOMAIN pending_downloads = (1..MaxTokens) \ {admin.arg}
    /\ DOMAIN pending_downloads # {}
    /\ semaphore_value = MAX_GLOBAL_CONCURRENT_DOWNLOADS - 1

\* C33: a call of the bridge that ends in an error (an unknown action, a
\* missing field, the timeout of the wait for the bot's loop) changes no
\* actor's counter and no pending token, neither by the time the error is
\* raised nor in any step it causes afterwards.
C33_ErrorHasNoEffect ==
    [][(admin' # admin /\ admin'.pc = "raised") =>
           UNCHANGED <<user_active_downloads, pending_downloads>>]_vars

(* ---------- properties: the sweeper ---------- *)
\* the keys a step removes from a dictionary
Removed(before, after) == (DOMAIN before) \ (DOMAIN after)

C35_NoResetInFlight ==
    /\ [](\A u \in Actors :
              Get(user_active_downloads, u, 0) >= Cardinality(Unfinished(u)))
    /\ [][\A u \in Actors :
              (Unfinished(u) # {} /\ jobs' = jobs) =>
                  Get(user_active_downloads', u, 0) >= Get(user_active_downloads, u, 0)
       ]_vars

(* ---------- properties: confirmations that are denied ---------- *)
\* a confirmation has started a job in this step
ConfirmAdmitted ==
    \E j \in Handlers : jobs[j].pc = "idle" /\ jobs'[j].pc = "cb_answer"

AdmissionDenials ==
    {"chat_rate_limited", "global_rate_limited", "active_limit", "cooldown"}

\* C37: a confirmation denied by the room cooldown, the global window, the
\* actor's cap or the actor's cooldown leaves the room's timestamp, the global
\* event window, the counters and the last-request stamps as they were.
C37_DenialChangesNothing ==
    [][\A t \in 1..minted :
           (ConfirmAnswered(t) /\ reply'.result \in AdmissionDenials) =>
               UNCHANGED <<chat_last_callback_ts, global_callback_events,
                           user_active_downloads, user_last_request_ts>>]_vars

(* ---------- properties: whose job a confirmed job is ---------- *)
\* the counter and the stamp of every actor but u are as before the step
OthersUntouched(u) ==
    \A v \in Actors \ {u} :
        /\ Get(user_active_downloads', v, -1) = Get(user_active_downloads, v, -1)
        /\ Get(user_last_request_ts', v, -1) = Get(user_last_request_ts, v, -1)

\* C38: the answer to a confirmation does not depend on who posted the link,
\* so every actor can redeem every live token; a confirmation is denied for
\* the cap or the cooldown exactly by the counter and the stamp of the actor
\* who confirms, and is let through only if that actor is below the cap and
\* out of the cooldown; the counter and the stamp written after the answer, and
\* the counter released at the end of the job, are those of that actor, and
\* no other actor's counter or stamp changes in these steps.
C38_CountedAgainstConfirmer ==
    /\ [](\A t \in DOMAIN pending_downloads : \A u, v \in Actors :
              CallbackVerdict(u, TRUE, pending_downloads[t], TRUE, FALSE)
                  = CallbackVerdict(u, TRUE,
                        [pending_downloads[t] EXCEPT !.initiator_id = v], TRUE, FALSE))
    /\ [][/\ \A t \in 1..minted :
                 /\ (ConfirmAnswered(t) /\ reply'.result = "active_limit") =>
                        AtActiveLimit(Get(user_active_downloads, reply'.uid, 0))
                 /\ (ConfirmAnswered(t) /\ reply'.result = "cooldown") =>
                        InCooldown(reply'.uid, clock)
          /\ \A j \in Handlers :
                 /\ (jobs[j].pc = "idle" /\ jobs'[j].pc = "cb_answer") =>
                        /\ ~AtActiveLimit(Get(user_active_downloads, jobs'[j].uid, 0))
                        /\ ~InCooldown(jobs'[j].uid, clock)
                        /\ UNCHANGED <<user_active_downloads, user_last_request_ts>>
                 /\ (jobs[j].pc = "cb_answer" /\ jobs'[j].pc = "wait_slot") =>
                        /\ user_active_downloads'[jobs[j].uid] = jobs[j].active + 1
                        /\ user_last_request_ts'[jobs[j].uid] = jobs[j].now
                        /\ jobs'[j].uid = jobs[j].uid
                        /\ OthersUntouched(jobs[j].uid)
                 /\ (jobs[j].acquired /\ jobs'[j].pc = "idle") =>
                        /\ user_active_downloads'[jobs[j].uid]
                               = Max(0, user_active_downloads[jobs[j].uid] - 1)
                        /\ OthersUntouched(jobs[j].uid)
                        /\ UNCHANGED user_last_request_ts
         ]_vars

\* an actor who posted no link has confirmed a token and the job is counted:
\* the actor's counter and stamp are set, the counter and the stamp of the
\* actor who posted it are not
C38_Witness ==
    \E j \in Handlers :
        /\ jobs[j].pc = "wait_slot"
        /\ jobs[j].acquired
        /\ jobs[j].uid # FirstActor
        /\ redeemed[1] = 1
        /\ Get(user_active_downloads, jobs[j].uid, 0) = 1
        /\ jobs[j].uid \in DOMAIN user_last_request_ts
        /\ FirstActor \notin DOMAIN user_active_downloads
        /\ FirstActor \notin DOMAIN user_last_request_ts
        /\ chat_last_callback_ts # EmptyDict

(* ---------- properties: progress at the global slot pool ---------- *)
\* C39: under fair scheduling and with pipeline runs that end, every job that
\* waits at the global semaphore enters the guarded block, and every job that
\* is admitted reaches the end of its `finally:`; whenever no job is left, all
\* slots are free and every actor's counter is 0.
C39_PoolProgress ==
    /\ \A j \in Handlers : (jobs[j].pc = "wait_slot") ~> (jobs[j].pc = "running")
    /\ \A j \in Handlers : jobs[j].acquired ~> (jobs[j].pc = "idle")
    /\ []((\A j \in Handlers : jobs[j].pc = "idle") =>
              /\ semaphore_value = MAX_GLOBAL_CONCURRENT_DOWNLOADS
              /\ \A u \in DOMAIN user_active_downloads : user_active_downloads[u] = 0)

\* every slot is taken by running jobs and another admitted job waits for one
C39_Witness ==
    /\ semaphore_value = 0
    /\ \E i, j \in Handlers :
           /\ jobs[i].pc = "running"
           /\ jobs[j].pc = "wait_slot"
           /\ jobs[j].acquired

(* ---------- properties: the backup codes ---------- *)
\* C40: a code leaves the pool only in a step that fills it into the form and
\* submits it, and then it is the only code that leaves; no code is submitted
\* twice; a refresh that is asked for the code with an empty pool ends as
\* "needs-2fa", which does not count as refreshed, so that the caller does not
\* retry; and a refresh ends as "needs-2fa" in no other case.
C40_CodeLeavesOnlyWhenSubmitted ==
    /\ [][refresher'.backup_codes # refresher.backup_codes =>
              /\ refresher.backup_codes # <<>>
              /\ refresher'.backup_codes = Tail(refresher.backup_codes)
              /\ refresher'.submitted
                     = Append(refresher.submitted, Head(refresher.backup_codes))
         ]_vars
    /\ [](\A i, k \in DOMAIN refresher.submitted :
              refresher.submitted[i] = refresher.submitted[k] => i = k)
    /\ [](refresher.status = "needs-2fa" =>
              /\ refresher.asked
              /\ refresher.backup_codes = <<>>
              /\ ~refresher.refreshed)
====
